---------------------------- MODULE Spec2Model ----------------------------
(***************************************************************************)
(* A model of the camera / triangulation core of wormlab3d.                *)
(*                                                                         *)
(*   wormlab3d/toolkit/pinhole_camera.py   PinholeCamera                   *)
(*   wormlab3d/toolkit/triangulate.py      triangulate                     *)
(*                                                                         *)
(* Real numbers are exact rationals <<n, d>> (d > 0, lowest terms), so the *)
(* arithmetic of the projection is computed, not abstracted.  A value that *)
(* numpy would produce by dividing by zero (inf / nan) is the value       *)
(* NonFinite.  numpy arrays are records [shape, data] with row-major     *)
(* data, as in numpy itself.                                               *)
(***************************************************************************)
EXTENDS Integers, Sequences, FiniteSets, TLC

VARIABLES
    \* ---- PinholeCamera (one construction site and its projections) ----
    cam,            \* the constructed PinholeCamera object, or None
    cam_args,       \* the arguments of the last PinholeCamera(...) call
    cam_error,      \* "none" | "AssertionError": what the last construction raised
    proj_error,     \* "none" | "AssertionError": what the last project_to_2d raised
    cam_point,      \* the 3D point of the last project_to_2d calls, or None
    cam_outs,       \* [BOOLEAN -> result | None]: out of project_to_2d(cam_point, distort)
    \* ---- triangulate (one call, statement by statement) ----
    image_points,   \* the caller's three per-view lists of 2D detections
    cameras,        \* the caller's Cameras entity (index of a camera triplet)
    x0,             \* the caller's initial guess, or None
    matching_threshold,
    pc,             \* position in triangulate
    x0_local,       \* triangulate's local x0 (after line 43-44)
    combos,         \* point_key_combinations
    ci,             \* index of the next combination of the for loop
    res_3d,         \* the list res_3d, as references (indices) into objs
    best_err,       \* best_err: an error value, or Inf
    objs,           \* every ObjectPoint the call has created (res_3d refers into it)
    ri,             \* index of the next element of the re-projection loop
    outcome,        \* what the call gave its caller: a list or an exception
    min_calls,      \* history: the arguments of every call of scipy's minimize
    call_no,        \* history: 1 for the first call, 2 for the caller's second call
    prev_outcome,   \* history: outcome of the caller's previous call
    prev_objs,      \* history: the ObjectPoints of the caller's previous call
    prev_min_calls, \* history: min_calls of the caller's previous call
    prev_image_points, \* history: image_points of the caller's previous call
    \* ---- DynamicCameras (one instance and its forward calls) ----
    dyn,            \* the instance: its distort flag and its eight buffers
    dyn_pc,         \* position in forward: "idle" | "called" | "extracted" | "shifted"
    dyn_args,       \* the arguments of the current / last forward call
    dyn_before,     \* history: the buffers when the current / last call began
    dyn_xy,         \* forward's locals x, y after line 79 (a tensor of pairs), or None
    dyn_out,        \* what the last forward call gave its caller
    \* ---- tumble-run approximation (get_approximate, find_approximation) ----
    tum_pc,         \* "idle" | "start" | "searching" | "done": position of the caller
    tum_args,       \* the arguments of the current / last call
    tum_search,     \* find_approximation's locals: bracket, candidate, best
    tum_tried,      \* history: the candidates the current / last search computed
    tum_out,        \* what the last call gave its caller
    \* ---- two concurrent forward calls on one DynamicCameras instance ----
    par_dyn,        \* the shared instance
    par_owner,      \* history: the call whose coefficients the buffers hold (0: none)
    par_calls,      \* per call: its position, arguments, locals x, y and outcome
    \* ---- RTExplorer.forward (one call) ----
    rt_pc,          \* "idle" | "sampling" | "simulate" | "simulated" | "done" | "failed"
    rt_cfg,         \* n_steps, N_WORKERS and the explorer's pause settings
    rt_frame,       \* self.e0, self.e1, self.e2 of every particle
    rt_durations,   \* durations: per particle, the sampled run durations
    rt_speeds,      \* speeds: per particle, the sampled run speeds
    rt_thetas,      \* thetas: per particle, the planar angle of every tumble
    rt_phis,        \* phis: per particle, the nonplanar angle of every tumble
    rt_e0s,         \* e0s: per particle, the headings
    rt_pauses,      \* pauses: per particle, the pause after every run
    rt_pool,        \* the worker pool: its tasks, those running, results, finishing order
    rt_i,           \* index of the serial loop
    rt_e0_exp,      \* e0_exp: per particle, the velocity at every step
    rt_out,         \* what forward gave its caller
    \* ---- VideoReader (one reader and the calls made on it) ----
    vid,            \* the reader: its video, background and current_frame
    vid_last,       \* the last call: its name, arguments, cursor before it, outcome
    vid_returned,   \* history: the frames __next__ returned since the cursor was last set
    vid_fresh,      \* history: set_frame_num has not been called yet
    vid_stopped,    \* history: __next__ has raised since the cursor was last set
    \* ---- VideoReader.find_contours (one call) ----
    fc_pc,          \* "idle" | "call" | "loop" | "done"
    fc_limits,      \* the limits imported from preprocessing.contour (lines 10-11)
    fc_args,        \* the reader and the arguments of the call
    fc_loc,         \* the locals of the call, with the history of its iterations
    fc_out,         \* what the call gave its caller
    \* ---- generate_2d_segmentation_masks (one call) ----
    seg_pc,         \* "idle" | "start" | "trial" | "between" | "done" | "failed"
    seg_args,       \* the arguments of the call and the number of trials resolved
    seg_loc,        \* the trial and frame the loops are at, and the pending batch
    seg_frames,     \* history: the frames the call has got from its trials
    seg_store,      \* history: per frame, how often its masks were predicted and stored
    seg_flushes,    \* history: every process_batch call
    seg_out         \* what the call gave its caller

camVars == <<cam, cam_args, cam_error, proj_error, cam_point, cam_outs>>
triInputs == <<image_points, cameras, x0, matching_threshold>>
triLocals == <<pc, x0_local, combos, ci, res_3d, best_err, objs, ri, outcome, min_calls>>
triHistory == <<call_no, prev_outcome, prev_objs, prev_min_calls, prev_image_points>>
triVars == <<triInputs, triLocals, triHistory>>
dynVars == <<dyn, dyn_pc, dyn_args, dyn_before, dyn_xy, dyn_out>>
tumVars == <<tum_pc, tum_args, tum_search, tum_tried, tum_out>>
parVars == <<par_dyn, par_owner, par_calls>>
rtVars == <<rt_pc, rt_cfg, rt_frame, rt_durations, rt_speeds, rt_thetas, rt_phis, rt_e0s,
           rt_pauses, rt_pool, rt_i, rt_e0_exp, rt_out>>
vidVars == <<vid, vid_last, vid_returned, vid_fresh, vid_stopped>>
fcVars == <<fc_pc, fc_limits, fc_args, fc_loc, fc_out>>
segVars == <<seg_pc, seg_args, seg_loc, seg_frames, seg_store, seg_flushes, seg_out>>
vars == <<camVars, triVars, dynVars, tumVars, parVars, rtVars, vidVars, fcVars, segVars>>
\* What the actions of one component leave alone.
notCam == <<triVars, dynVars, tumVars, parVars, rtVars, vidVars, fcVars, segVars>>
notTri == <<camVars, dynVars, tumVars, parVars, rtVars, vidVars, fcVars, segVars>>
notDyn == <<camVars, triVars, tumVars, parVars, rtVars, vidVars, fcVars, segVars>>
notTum == <<camVars, triVars, dynVars, parVars, rtVars, vidVars, fcVars, segVars>>
notPar == <<camVars, triVars, dynVars, tumVars, rtVars, vidVars, fcVars, segVars>>
notRT == <<camVars, triVars, dynVars, tumVars, parVars, vidVars, fcVars, segVars>>
notVid == <<camVars, triVars, dynVars, tumVars, parVars, rtVars, fcVars, segVars>>
notFc == <<camVars, triVars, dynVars, tumVars, parVars, rtVars, vidVars, segVars>>
notSeg == <<camVars, triVars, dynVars, tumVars, parVars, rtVars, vidVars, fcVars>>

\* Python's None: where a sequence is expected, and where an object is expected
None == <<>>
NoObject == [none |-> TRUE]
\* float('inf') as an error value, and an inf / nan coordinate
Inf == <<"inf">>
NonFinite == <<"nonfinite">>

-----------------------------------------------------------------------------
(* Exact rational arithmetic (the model of float64 arithmetic).            *)

Abs(n) == IF n < 0 THEN -n ELSE n

RECURSIVE GCD(_, _)
GCD(a, b) == IF b = 0 THEN a ELSE GCD(b, a % b)

\* The arithmetic is defined as functions over pairs of integers and used
\* through the operators below.
Q == Int \X Int

\* The rational n/d in lowest terms with a positive denominator (d # 0).
RatF[n \in Int, d \in Int] ==
    LET g == GCD(Abs(n), Abs(d))
        s == IF d < 0 THEN -1 ELSE 1
    IN  <<(s * n) \div g, (s * d) \div g>>
Rat(n, d) == RatF[n, d]

R(n) == <<n, 1>>
\* Sums and products reduce before they multiply, to keep the numbers small.
RAddF[a \in Q, b \in Q] ==
    LET g == GCD(a[2], b[2])
    IN  Rat(a[1] * (b[2] \div g) + b[1] * (a[2] \div g), (a[2] \div g) * b[2])
RAdd(a, b) == RAddF[a, b]
RNegF[a \in Q] == <<-a[1], a[2]>>
RNeg(a) == RNegF[a]
RSub(a, b) == RAdd(a, RNeg(b))
RMulF[a \in Q, b \in Q] ==
    LET g1 == GCD(Abs(a[1]), b[2])
        g2 == GCD(Abs(b[1]), a[2])
    IN  Rat((a[1] \div g1) * (b[1] \div g2), (a[2] \div g2) * (b[2] \div g1))
RMul(a, b) == RMulF[a, b]
\* 1 / b for b # 0
RInvF[b \in Q] == IF b[1] < 0 THEN <<-b[2], -b[1]>> ELSE <<b[2], b[1]>>
RDiv(a, b) == RMul(a, RInvF[b])
RLt(a, b) == RSub(a, b)[1] < 0
RLe(a, b) == RSub(a, b)[1] <= 0

-----------------------------------------------------------------------------
(* numpy arrays: [shape |-> <<..>>, data |-> row-major sequence].          *)

NdArray(shape, data) == [shape |-> shape, data |-> data]
Vec(seq) == NdArray(<<Len(seq)>>, seq)
\* a[i, j] of a 2-D array, 0-based as in the source
At2(a, i, j) == a.data[i * a.shape[2] + j + 1]
\* a[i] of a 1-D array, 0-based
At1(a, i) == a.data[i + 1]

-----------------------------------------------------------------------------
(* PinholeCamera  (wormlab3d/toolkit/pinhole_camera.py)                    *)

\* Variant of InitShapesOk: the distortion's shape is not checked.
InitShapesOk_NoDistortionCheck(pose, matrix, distortion) ==
    /\ pose.shape = <<4, 4>>
    /\ matrix.shape = <<3, 3>>

\* __init__'s three assertions (lines 18-21): TRUE iff none of them fails.
InitShapesOk(pose, matrix, distortion) ==
    /\ pose.shape = <<4, 4>>
    /\ matrix.shape = <<3, 3>>
    /\ (distortion # NoObject => distortion.shape = <<5>>)

\* self.rotation = pose[:3, :3]
PoseRotation(pose) ==
    NdArray(<<3, 3>>, [k \in 1..9 |-> At2(pose, (k - 1) \div 3, (k - 1) % 3)])

\* self.translation = pose[:3, 3]
PoseTranslation(pose) ==
    NdArray(<<3>>, [k \in 1..3 |-> At2(pose, k - 1, 3)])

\* The object __init__ leaves behind when no assertion fails (lines 22-27).
PinholeCamera(pose, matrix, distortion, shift) ==
    [pose |-> pose, matrix |-> matrix, distortion |-> distortion,
     rotation |-> PoseRotation(pose), translation |-> PoseTranslation(pose),
     shift |-> shift]

\* x = np.matmul(self.rotation, image_point) + self.translation  (line 41)
CameraFrame(self, image_point) ==
    [i \in 1..3 |->
        At2(self.rotation, i - 1, 0) * image_point[1]
      + At2(self.rotation, i - 1, 1) * image_point[2]
      + At2(self.rotation, i - 1, 2) * image_point[3]
      + At1(self.translation, i - 1)]

\* x[0] / x[2], x[1] / x[2]  (line 42).  Dividing by zero gives inf or nan,
\* and every later step keeps such a value non-finite.
PerspectiveDivide(xc) ==
    IF xc[3] = 0 THEN NonFinite ELSE <<Rat(xc[1], xc[3]), Rat(xc[2], xc[3])>>

\* if self.shift is not None: x += shift[0] / fx; y += shift[1] / fy  (lines 43-48)
AddShift(self, xy) ==
    IF xy = NonFinite \/ self.shift = None THEN xy
    ELSE <<RAdd(xy[1], RDiv(R(self.shift[1]), R(At2(self.matrix, 0, 0)))),
           RAdd(xy[2], RDiv(R(self.shift[2]), R(At2(self.matrix, 1, 1))))>>

Coeff(distortion, i) == R(At1(distortion, i))

\* Variant of RadialFactor: the factor lacks its leading 1.
RadialFactor_NoUnit(distortion, r2) ==
    RMul(r2, RAdd(Coeff(distortion, 0),
                  RMul(r2, RAdd(Coeff(distortion, 1), RMul(Coeff(distortion, 4), r2)))))

\* 1 + r2 * (k1 + r2 * (k2 + k3 * r2))  (lines 53, 55), with
\* k1, k2, p1, p2, k3 = self.distortion  (line 51)
RadialFactor(distortion, r2) ==
    RAdd(R(1), RMul(r2, RAdd(Coeff(distortion, 0),
                             RMul(r2, RAdd(Coeff(distortion, 1),
                                           RMul(Coeff(distortion, 4), r2))))))

\* The right-hand side of lines 53-56, given r2 and the radial factor.
DistortTerms(distortion, x, y, r2, rad) ==
    <<RAdd(RMul(x, RAdd(rad, RMul(RMul(R(2), Coeff(distortion, 2)), y))),
           RMul(Coeff(distortion, 3), RAdd(r2, RMul(R(2), RMul(x, x))))),
      RAdd(RMul(y, RAdd(rad, RMul(RMul(R(2), Coeff(distortion, 3)), x))),
           RMul(Coeff(distortion, 2), RAdd(r2, RMul(R(2), RMul(y, y)))))>>

DistortR2(distortion, x, y, r2) ==
    DistortTerms(distortion, x, y, r2, RadialFactor(distortion, r2))

\* The distortion block of project_to_2d (lines 51-56): the new <<x, y>>,
\* with r2 = x * x + y * y  (line 52).
Distort(distortion, x, y) ==
    DistortR2(distortion, x, y, RAdd(RMul(x, x), RMul(y, y)))

\* if distort and self.distortion is not None: ...  (lines 50-56)
ApplyDistortion(self, distort, xy) ==
    IF xy # NonFinite /\ distort /\ self.distortion # NoObject
    THEN Distort(self.distortion, xy[1], xy[2])
    ELSE xy

\* np.array([fx * x + cx, fy * y + cy])  (lines 58-61)
ToPixels(self, xy) ==
    IF xy = NonFinite THEN NonFinite
    ELSE <<RAdd(RMul(R(At2(self.matrix, 0, 0)), xy[1]), R(At2(self.matrix, 0, 2))),
           RAdd(RMul(R(At2(self.matrix, 1, 1)), xy[2]), R(At2(self.matrix, 1, 2)))>>

\* Variant of project_to_2d: the shift is added after the distortion.
project_to_2d_ShiftLast(self, image_point, distort) ==
    ToPixels(self,
        AddShift(self,
            ApplyDistortion(self, distort,
                PerspectiveDivide(CameraFrame(self, image_point)))))

\* project_to_2d (lines 41-63): each statement group applied to the result
\* of the one before it.  The result is the pair <<u, v>> of rationals, or
\* NonFinite.
project_to_2d(self, image_point, distort) ==
    ToPixels(self,
        ApplyDistortion(self, distort,
            AddShift(self,
                PerspectiveDivide(CameraFrame(self, image_point)))))

-----------------------------------------------------------------------------
(* The inputs a caller may hand to PinholeCamera.                          *)

Mat(rows, cols, data) == NdArray(<<rows, cols>>, data)

\* Homogeneous 4x4 poses [R | t; 0 0 0 1]
PoseFront == Mat(4, 4, <<1, 0, 0, 0,
                         0, 1, 0, 0,
                         0, 0, 1, 1,
                         0, 0, 0, 1>>)
PoseSide == Mat(4, 4, <<0, 1, 0, 1,
                        0, 0, 1, -1,
                        1, 0, 0, 2,
                        0, 0, 0, 1>>)
PoseTop == Mat(4, 4, <<0, 0, 1, 0,
                       1, 0, 0, 0,
                       0, 1, 0, 1,
                       0, 0, 0, 1>>)
\* Malformed poses: [R | t] without its last row, a bare rotation
Pose3x4 == Mat(3, 4, <<1, 0, 0, 0,  0, 1, 0, 0,  0, 0, 1, 1>>)
Pose3x3 == Mat(3, 3, <<1, 0, 0,  0, 1, 0,  0, 0, 1>>)

Intrinsic(fx, fy, cx, cy) == Mat(3, 3, <<fx, 0, cx,  0, fy, cy,  0, 0, 1>>)
Matrix2x2 == Mat(2, 2, <<1, 0, 0, 1>>)
Matrix3x4 == Mat(3, 4, <<1, 0, 0, 0,  0, 1, 0, 0,  0, 0, 1, 0>>)

Poses == {PoseFront, PoseSide, Pose3x4, Pose3x3}
Matrices == {Intrinsic(1, 1, 0, 0), Intrinsic(2, 3, 1, -2), Matrix2x2, Matrix3x4}
Distortions == {NoObject, Vec(<<0, 0, 0, 0, 0>>), Vec(<<1, -1, 1, -1, 2>>),
                Vec(<<0, 0, 0, 0>>), Vec(<<0, 0, 0, 0, 0, 0>>),
                Mat(1, 5, <<0, 0, 0, 0, 0>>)}
Shifts == {None, <<1, -1>>, <<0, 2>>}
Points3D == {<<0, 0, 1>>, <<1, 2, 1>>, <<1, -1, 2>>, <<-2, 1, 0>>, <<2, 0, -1>>}
\* An image_point that is not a 3-vector (line 39 rejects it)
BadPoints == {<<1, 2>>}

-----------------------------------------------------------------------------
(* The camera's operations as actions.                                     *)

NoArgs == [none |-> TRUE]

CamInit ==
    /\ cam = NoObject
    /\ cam_args = NoArgs
    /\ cam_error = "none"
    /\ proj_error = "none"
    /\ cam_point = None
    /\ cam_outs = [d \in BOOLEAN |-> None]

\* cam = PinholeCamera(pose, matrix, distortion, shift): __init__, lines 11-27.
\* A failed assertion leaves the caller without an object.
CamConstruct ==
    \E pose \in Poses, matrix \in Matrices, distortion \in Distortions, shift \in Shifts :
        /\ cam_args' = [pose |-> pose, matrix |-> matrix,
                        distortion |-> distortion, shift |-> shift]
        /\ IF InitShapesOk(pose, matrix, distortion)
           THEN /\ cam' = PinholeCamera(pose, matrix, distortion, shift)
                /\ cam_error' = "none"
           ELSE /\ cam' = NoObject
                /\ cam_error' = "AssertionError"
        /\ proj_error' = "none"
        /\ cam_point' = None
        /\ cam_outs' = [d \in BOOLEAN |-> None]
        /\ UNCHANGED notCam

\* out = cam.project_to_2d(image_point, distort): lines 29-63.  cam_outs
\* keeps the results of both values of distort for the same point.
CamProject ==
    \E image_point \in Points3D \cup BadPoints, distort \in BOOLEAN :
        /\ cam # NoObject
        /\ IF Len(image_point) # 3
           THEN /\ proj_error' = "AssertionError"
                /\ UNCHANGED <<cam_point, cam_outs>>
           ELSE /\ proj_error' = "none"
                /\ cam_point' = image_point
                /\ cam_outs' =
                      [d \in BOOLEAN |->
                          IF d = distort THEN project_to_2d(cam, image_point, distort)
                          ELSE IF image_point = cam_point THEN cam_outs[d]
                          ELSE None]
        /\ UNCHANGED <<cam, cam_args, cam_error>>
        /\ UNCHANGED notCam

NoOutcome == [kind |-> "none"]

TriIdle ==
    /\ image_points = <<>>
    /\ cameras = 0
    /\ x0 = None
    /\ matching_threshold = 0
    /\ pc = "idle"
    /\ x0_local = None
    /\ combos = <<>>
    /\ ci = 0
    /\ res_3d = <<>>
    /\ best_err = Inf
    /\ objs = <<>>
    /\ ri = 0
    /\ outcome = NoOutcome
    /\ min_calls = <<>>
    /\ call_no = 0
    /\ prev_outcome = NoOutcome
    /\ prev_objs = <<>>
    /\ prev_min_calls = <<>>
    /\ prev_image_points = <<>>

\* No DynamicCameras instance is in use.
DynIdle ==
    /\ dyn = NoObject
    /\ dyn_pc = "idle"
    /\ dyn_args = NoArgs
    /\ dyn_before = NoObject
    /\ dyn_xy = None
    /\ dyn_out = NoOutcome

\* No tumble-run approximation has been asked for.
TumIdle ==
    /\ tum_pc = "idle"
    /\ tum_args = NoArgs
    /\ tum_search = NoObject
    /\ tum_tried = <<>>
    /\ tum_out = NoOutcome

\* No concurrent forward calls are under way.
ParIdle ==
    /\ par_dyn = NoObject
    /\ par_owner = 0
    /\ par_calls = <<>>

\* No particle simulation has been asked for.
NoPool == [tasks |-> <<>>, running |-> {}, res |-> <<>>, order |-> <<>>]

RTIdle ==
    /\ rt_pc = "idle"
    /\ rt_cfg = NoArgs
    /\ rt_frame = <<>>
    /\ rt_durations = <<>>
    /\ rt_speeds = <<>>
    /\ rt_thetas = <<>>
    /\ rt_phis = <<>>
    /\ rt_e0s = <<>>
    /\ rt_pauses = <<>>
    /\ rt_pool = NoPool
    /\ rt_i = 0
    /\ rt_e0_exp = <<>>
    /\ rt_out = NoOutcome

\* No VideoReader is in use.
NoCall == [op |-> "none", args |-> NoArgs, before |-> -1, outcome |-> NoOutcome]
VidIdle ==
    /\ vid = NoObject
    /\ vid_last = NoCall
    /\ vid_returned = <<>>
    /\ vid_fresh = TRUE
    /\ vid_stopped = FALSE

\* No find_contours call has been made.
FcIdle ==
    /\ fc_pc = "idle"
    /\ fc_limits = NoObject
    /\ fc_args = NoArgs
    /\ fc_loc = NoObject
    /\ fc_out = NoOutcome

\* No segmentation masks have been asked for.
SegIdle ==
    /\ seg_pc = "idle"
    /\ seg_args = NoArgs
    /\ seg_loc = NoObject
    /\ seg_frames = <<>>
    /\ seg_store = <<>>
    /\ seg_flushes = <<>>
    /\ seg_out = NoOutcome

\* Everything outside the component a specification is about is idle.
InitCam ==
    CamInit /\ TriIdle /\ DynIdle /\ TumIdle /\ ParIdle /\ RTIdle /\ VidIdle
       /\ FcIdle /\ SegIdle
NextCam == CamConstruct \/ CamProject
SpecCam == InitCam /\ [][NextCam]_vars

-----------------------------------------------------------------------------
(* triangulate  (wormlab3d/toolkit/triangulate.py)                         *)
(*                                                                         *)
(* An error value e >= 0 is the exact root Sqrt(q) of a rational q: the    *)
(* objective is np.sqrt of a sum of squares, which need not be rational.   *)

CAMERA_IDXS == <<0, 1, 2>>
DefaultX0 == <<1, 1, 500>>
DefaultMatchingThreshold == 1000
MaxIter == 1000

\* Bounds of the model
MaxCand == 2
GridMax == 1

Sqrt(q) == <<"sqrt", q>>
Radicand(e) == e[2]
\* e1 < e2 and e1 <= e2 for error values, Inf included
ErrLt(e1, e2) ==
    /\ e1 # Inf
    /\ (e2 = Inf \/ RLt(Radicand(e1), Radicand(e2)))
ErrLe(e1, e2) == ~ErrLt(e2, e1)
\* e < t, e <= t and e = t for an error value e and a number t (a threshold)
\* (sqrt(n/d) < t iff n/d < t*t iff n \div d < t*t, for integers t > 0, d > 0)
ErrBelow(e, t) == e # Inf /\ t > 0 /\ Radicand(e)[1] \div Radicand(e)[2] < t * t
ErrEquals(e, t) == e # Inf /\ t >= 0 /\ Radicand(e) = R(t * t)
\* Variant of Min: the later value, whichever is smaller.
Min_Last(a, b) == b
\* Python's min(a, b): b only when it is strictly smaller
Min(a, b) == IF ErrLt(b, a) THEN b ELSE a

\* The camera rig behind a Cameras entity: three cameras with parallel axes
\* one unit apart, focal length 2; one has a distortion vector, one a shift.
RigMatrix == Intrinsic(2, 2, 0, 0)
PoseRight == Mat(4, 4, <<1, 0, 0, 1,
                         0, 1, 0, 0,
                         0, 0, 1, 1,
                         0, 0, 0, 1>>)
PoseUp == Mat(4, 4, <<1, 0, 0, 0,
                      0, 1, 0, 1,
                      0, 0, 1, 1,
                      0, 0, 0, 1>>)
PoseTurned == Mat(4, 4, <<0, -1, 0, 1,
                          1, 0, 0, 0,
                          0, 0, 1, 1,
                          0, 0, 0, 1>>)
CamerasIds == {1, 2}
\* cameras.get_camera_model_triplet()
get_camera_model_triplet(cams) ==
    IF cams = 1
    THEN <<PinholeCamera(PoseFront, RigMatrix, NoObject, None),
           PinholeCamera(PoseRight, RigMatrix, Vec(<<0, 0, 0, 0, 0>>), None),
           PinholeCamera(PoseUp, RigMatrix, NoObject, <<0, 2>>)>>
    ELSE <<PinholeCamera(PoseFront, RigMatrix, NoObject, None),
           PinholeCamera(PoseTurned, RigMatrix, NoObject, None),
           PinholeCamera(PoseUp, RigMatrix, NoObject, None)>>

\* np.linalg.norm(uv - pt)**2
Norm2(uv, pt) ==
    RAdd(RMul(RSub(uv[1], R(pt[1])), RSub(uv[1], R(pt[1]))),
         RMul(RSub(uv[2], R(pt[2])), RSub(uv[2], R(pt[2]))))

\* np.linalg.norm(cams_model[c].project_to_2d(x) - pts[c])**2  (line 49)
Residual2(camera, x, pt) == Norm2(project_to_2d(camera, x, TRUE), pt)

\* f(x, pts)  (lines 46-52)
f(cams_model, x, pts) ==
    Sqrt(RAdd(RAdd(Residual2(cams_model[CAMERA_IDXS[1] + 1], x, pts[CAMERA_IDXS[1] + 1]),
                   Residual2(cams_model[CAMERA_IDXS[2] + 1], x, pts[CAMERA_IDXS[2] + 1])),
              Residual2(cams_model[CAMERA_IDXS[3] + 1], x, pts[CAMERA_IDXS[3] + 1])))

\* scipy.optimize.minimize(f, x0, args=(pts,), method='BFGS', maxiter=1000)
\* (lines 65-76).  The quasi-Newton descent is modelled by a deterministic
\* descent with exact line searches along the axes over the values
\* 0..GridMax: from x it moves to the best strictly better point that
\* differs from x in one coordinate, until none is better or the iteration
\* budget is spent.  Its result depends on its start, as a local method's does.
NCand == 3 * (GridMax + 1)
Candidate(x, k) ==
    [x EXCEPT ![((k - 1) \div (GridMax + 1)) + 1] = (k - 1) % (GridMax + 1)]

Evaluated(cams_model, x, pts) == [x |-> x, fun |-> f(cams_model, x, pts)]
Better(best, cand) == IF ErrLt(cand.fun, best.fun) THEN cand ELSE best

RECURSIVE LineSearch(_, _, _, _, _)
LineSearch(cams_model, pts, x, best, k) ==
    IF k > NCand THEN best
    ELSE LineSearch(cams_model, pts, x,
                    Better(best, Evaluated(cams_model, Candidate(x, k), pts)), k + 1)

RECURSIVE Descend(_, _, _, _)
DescendTo(cams_model, pts, cur, nxt, iters) ==
    IF iters = 0 \/ nxt.x = cur.x THEN cur
    ELSE Descend(cams_model, pts, nxt, iters - 1)
Descend(cams_model, pts, cur, iters) ==
    DescendTo(cams_model, pts, cur, LineSearch(cams_model, pts, cur.x, cur, 1), iters)

minimize(cams_model, start, pts) ==
    Descend(cams_model, pts, Evaluated(cams_model, start, pts), MaxIter)

\* Variant of point_key_product: the first combination only.
point_key_product_FirstOnly(n0, n1, n2) ==
    [k \in 1..(IF n0 * n1 * n2 = 0 THEN 0 ELSE 1) |-> <<0, 0, 0>>]
\* list(itertools.product(range(n0), range(n1), range(n2)))  (lines 54-55):
\* lexicographic, the last index running fastest.
point_key_product(n0, n1, n2) ==
    [k \in 1..(n0 * n1 * n2) |->
        <<(k - 1) \div (n1 * n2), ((k - 1) \div n2) % n1, (k - 1) % n2>>]

\* res_3d.sort(key=lambda r: r.error)  (line 88): stable, ascending.
RECURSIVE InsertByError(_, _, _)
InsertByError(os, sorted, r) ==
    IF sorted = <<>> THEN <<r>>
    ELSE IF ErrLt(os[r].error, os[sorted[Len(sorted)]].error)
         THEN Append(InsertByError(os, SubSeq(sorted, 1, Len(sorted) - 1), r),
                     sorted[Len(sorted)])
         ELSE Append(sorted, r)

\* Variant of SortByError: the list is left in the order of creation.
SortByError_Unsorted(os, refs) == refs
RECURSIVE SortByError(_, _)
SortByError(os, refs) ==
    IF refs = <<>> THEN <<>>
    ELSE InsertByError(os, SortByError(os, SubSeq(refs, 1, Len(refs) - 1)), refs[Len(refs)])

\* [r for r in res_3d if r.error < matching_threshold]  (line 87)
FilterByThreshold(os, refs, threshold) ==
    SelectSeq(refs, LAMBDA r : ErrBelow(os[r].error, threshold))

\* Variant of Reprojection: every entry is projected through camera 0.
Reprojection_FirstCamera(cams_model, point_3d) ==
    [k \in 1..Len(CAMERA_IDXS) |->
        project_to_2d(cams_model[CAMERA_IDXS[1] + 1], point_3d, TRUE)]
\* [list(cams_model[c].project_to_2d(r.point_3d)) for c in CAMERA_IDXS]  (lines 96-99)
Reprojection(cams_model, point_3d) ==
    [k \in 1..Len(CAMERA_IDXS) |->
        project_to_2d(cams_model[CAMERA_IDXS[k] + 1], point_3d, TRUE)]

\* f'{best_err:.2f}': the error rounded to hundredths, or "inf".
\* ISqrt(n, n) is the integer part of the square root of n (Newton's iteration).
RECURSIVE ISqrt(_, _)
ISqrt(n, r) ==
    IF n = 0 THEN 0
    ELSE IF (r + n \div r) \div 2 >= r THEN r
         ELSE ISqrt(n, (r + n \div r) \div 2)
\* The integer part of 40000 * n / d, computed in two steps of 200.
Scaled40000(n, d) ==
    40000 * (n \div d) + 200 * ((200 * (n % d)) \div d)
        + (200 * ((200 * (n % d)) % d)) \div d
\* round(100 * sqrt(q)) = (floor(sqrt(40000 * q)) + 1) \div 2
Hundredths(n) == (ISqrt(n, n) + 1) \div 2
Format2f(e) ==
    IF e = Inf THEN [inf |-> TRUE, hundredths |-> 0]
    ELSE [inf |-> FALSE,
          hundredths |-> Hundredths(Scaled40000(Radicand(e)[1], Radicand(e)[2]))]

\* Variant of X0AfterMinimize: minimize works on x0 itself and leaves its
\* result in it.
X0AfterMinimize_NoCopy(x0_before, res) == res.x
\* x0=x0.copy() (line 67): minimize works on a copy, so x0 after the call
\* is x0 before it, whatever the result.
X0AfterMinimize(x0_before, res) == x0_before

\* Variant of NothingLeft: an empty list is not noticed.
NothingLeft_Never(kept) == FALSE
\* len(res_3d) == 0  (line 91)
NothingLeft(kept) == Len(kept) = 0

\* ObjectPoint(), then lines 79-82
ObjectPoint(cams, res, point_key_combination) ==
    [cameras |-> cams, point_3d |-> res.x, error |-> res.fun,
     source_point_idxs |-> point_key_combination, reprojected_points_2d |-> None]

-----------------------------------------------------------------------------
(* The arguments a caller may hand to triangulate.                         *)

\* The detections a view may hold: the pixels of the object points (1,1,0)
\* and (0,0,1) as seen by camera c of rig 1.
DetectionPool(c) ==
    CASE c = 0 -> {<<2, 2>>, <<0, 0>>}
      [] c = 1 -> {<<4, 2>>, <<1, 0>>}
      [] c = 2 -> {<<2, 6>>, <<0, 3>>}

ListsOver(S, n) == UNION {[1..m -> S] : m \in 0..n}

\* Two, three and one detections in views 0, 1, 2.
TwoThreeOne == <<<<<<0, 0>>, <<2, 2>>>>, <<<<4, 2>>, <<1, 0>>, <<4, 2>>>>, <<<<2, 6>>>>>>

\* Up to MaxCand detections in views 0 and 1 and one fewer in view 2, in any
\* order and with repeats; and the input above.
ImagePoints ==
    {<<v0, v1, v2>> : v0 \in ListsOver(DetectionPool(0), MaxCand),
                      v1 \in ListsOver(DetectionPool(1), MaxCand),
                      v2 \in ListsOver(DetectionPool(2), MaxCand - 1)}
        \cup {TwoThreeOne}

\* x0: omitted, a 3-vector, or a vector of the wrong shape (line 34 rejects it)
X0s == {None, <<0, 0, 0>>, <<1, 1>>}
Thresholds == {0, 3, DefaultMatchingThreshold}

-----------------------------------------------------------------------------
(* triangulate as actions: one per statement group of the function.        *)

Returned(value) == [kind |-> "return", value |-> value]
Raised(error, best, threshold) ==
    [kind |-> "raise", error |-> error, best |-> best, threshold |-> threshold]

\* The locals of a call that has not started.
TriEntry ==
    /\ pc = "call"
    /\ x0_local = None
    /\ combos = <<>>
    /\ ci = 0
    /\ res_3d = <<>>
    /\ best_err = Inf
    /\ objs = <<>>
    /\ ri = 0
    /\ outcome = NoOutcome
    /\ min_calls = <<>>

TriInit ==
    /\ image_points \in ImagePoints
    /\ cameras \in CamerasIds
    /\ x0 \in X0s
    /\ matching_threshold \in Thresholds
    /\ TriEntry
    /\ call_no = 1
    /\ prev_outcome = NoOutcome
    /\ prev_objs = <<>>
    /\ prev_min_calls = <<>>
    /\ prev_image_points = <<>>

cams_model == get_camera_model_triplet(cameras)

\* The results of minimize, tabulated once: for every Cameras entity, every
\* point a minimisation can start from (an initial guess of X0s, the
\* default guess, a point of the grid) and every triple of detections.
StartPoints == {DefaultX0} \cup ((0..GridMax) \X (0..GridMax) \X (0..GridMax))
DetectionTriples == DetectionPool(0) \X DetectionPool(1) \X DetectionPool(2)
Minimized ==
    [k \in CamerasIds \X StartPoints \X DetectionTriples |->
        minimize(get_camera_model_triplet(k[1]), k[2], k[3])] @@ <<>>

\* Lines 22-57: the assertions on the arguments, the default initial guess,
\* the combinations, the empty result list.
TriBegin ==
    /\ pc = "call"
    /\ IF Len(image_points) # 3 \/ (x0 # None /\ Len(x0) # 3)
       THEN /\ outcome' = Raised("AssertionError", Format2f(Inf), matching_threshold)
            /\ pc' = "done"
            /\ UNCHANGED <<x0_local, combos, ci, res_3d, best_err>>
       ELSE /\ x0_local' = IF x0 = None THEN DefaultX0 ELSE x0
            /\ combos' = point_key_product(Len(image_points[1]), Len(image_points[2]),
                                           Len(image_points[3]))
            /\ ci' = 1
            /\ res_3d' = <<>>
            /\ best_err' = Inf
            /\ pc' = "loop"
            /\ UNCHANGED outcome
    /\ UNCHANGED <<objs, ri, min_calls>>
    /\ UNCHANGED <<triInputs, triHistory, notTri>>

\* One iteration of the for loop, lines 58-84.
TriSolve ==
    /\ pc = "loop"
    /\ ci <= Len(combos)
    /\ \E point_key_combination \in {combos[ci]} :
       \E points_2d \in {<<image_points[1][point_key_combination[1] + 1],
                            image_points[2][point_key_combination[2] + 1],
                            image_points[3][point_key_combination[3] + 1]>>} :
       \E res \in {Minimized[<<cameras, x0_local, points_2d>>]} :
       \E obj_point \in {ObjectPoint(cameras, res, point_key_combination)} :
           /\ min_calls' = Append(min_calls, [x0 |-> x0_local, args |-> points_2d])
           /\ objs' = Append(objs, obj_point)
           /\ res_3d' = Append(res_3d, Len(objs) + 1)
           /\ best_err' = Min(best_err, obj_point.error)
           /\ x0_local' = X0AfterMinimize(x0_local, res)
    /\ ci' = ci + 1
    /\ UNCHANGED <<pc, combos, ri, outcome>>
    /\ UNCHANGED <<triInputs, triHistory, notTri>>

\* Lines 86-92: filter, sort, and raise when nothing is left.
TriFilterSort ==
    /\ pc = "loop"
    /\ ci > Len(combos)
    /\ \E kept \in {SortByError(objs, FilterByThreshold(objs, res_3d, matching_threshold))} :
           /\ res_3d' = kept
           /\ IF NothingLeft(kept)
              THEN /\ outcome' = Raised("ValueError", Format2f(best_err), matching_threshold)
                   /\ pc' = "done"
              ELSE /\ pc' = "reproject"
                   /\ UNCHANGED outcome
    /\ ri' = 1
    /\ UNCHANGED <<x0_local, combos, ci, best_err, objs, min_calls>>
    /\ UNCHANGED <<triInputs, triHistory, notTri>>

\* One iteration of the re-projection loop, lines 95-99.
TriReproject ==
    /\ pc = "reproject"
    /\ ri <= Len(res_3d)
    /\ objs' = [objs EXCEPT ![res_3d[ri]].reprojected_points_2d =
                                Reprojection(cams_model, objs[res_3d[ri]].point_3d)]
    /\ ri' = ri + 1
    /\ UNCHANGED <<pc, x0_local, combos, ci, res_3d, best_err, outcome, min_calls>>
    /\ UNCHANGED <<triInputs, triHistory, notTri>>

\* Line 105: return res_3d.
TriReturn ==
    /\ pc = "reproject"
    /\ ri > Len(res_3d)
    /\ outcome' = Returned([k \in 1..Len(res_3d) |-> objs[res_3d[k]]])
    /\ pc' = "done"
    /\ UNCHANGED <<x0_local, combos, ci, res_3d, best_err, objs, ri, min_calls>>
    /\ UNCHANGED <<triInputs, triHistory, notTri>>

Reversed(seq) == [k \in 1..Len(seq) |-> seq[Len(seq) + 1 - k]]

\* The caller calls triangulate once more, with the same arguments or with
\* each view's detections in the opposite order (plot_triangulations calls
\* it once per Cameras record; every call starts from fresh locals).
TriCallAgain ==
    /\ pc = "done"
    /\ call_no = 1
    /\ \E reverse \in BOOLEAN :
          image_points' = IF reverse
                          THEN [c \in 1..Len(image_points) |-> Reversed(image_points[c])]
                          ELSE image_points
    /\ call_no' = 2
    /\ prev_outcome' = outcome
    /\ prev_objs' = objs
    /\ prev_min_calls' = min_calls
    /\ prev_image_points' = image_points
    /\ pc' = "call"
    /\ x0_local' = None
    /\ combos' = <<>>
    /\ ci' = 0
    /\ res_3d' = <<>>
    /\ best_err' = Inf
    /\ objs' = <<>>
    /\ ri' = 0
    /\ outcome' = NoOutcome
    /\ min_calls' = <<>>
    /\ UNCHANGED <<cameras, x0, matching_threshold, notTri>>

CamIdle ==
    /\ cam = NoObject
    /\ cam_args = NoArgs
    /\ cam_error = "none"
    /\ proj_error = "none"
    /\ cam_point = None
    /\ cam_outs = [d \in BOOLEAN |-> None]

InitTri ==
    TriInit /\ CamIdle /\ DynIdle /\ TumIdle /\ ParIdle /\ RTIdle /\ VidIdle
       /\ FcIdle /\ SegIdle
NextTri ==
    \/ TriBegin
    \/ TriSolve
    \/ TriFilterSort
    \/ TriReproject
    \/ TriReturn
    \/ TriCallAgain
SpecTri == InitTri /\ [][NextTri]_vars

-----------------------------------------------------------------------------
(* Properties of triangulate, checked under SpecTri.                       *)

\* The arguments pass the assertions of lines 22-34.
ArgsAccepted == Len(image_points) = 3 /\ (x0 = None \/ Len(x0) = 3)
\* The initial guess the call works with.
EffectiveX0 == IF x0 = None THEN DefaultX0 ELSE x0
RaisedError(e) == outcome.kind = "raise" /\ outcome.error = e
\* The for loop over the combinations has run to its end.
LoopOver ==
    \/ pc = "loop" /\ ci > Len(combos)
    \/ pc = "reproject"
    \/ pc = "done" /\ ~RaisedError("AssertionError")
Finished == pc = "done" /\ ~RaisedError("AssertionError")
Detections(idxs) ==
    <<image_points[1][idxs[1] + 1], image_points[2][idxs[2] + 1], image_points[3][idxs[3] + 1]>>
Solved == 1..Len(objs)
Errors == {objs[k].error : k \in Solved}
LeastError ==
    IF objs = <<>> THEN Inf
    ELSE CHOOSE e \in Errors : \A o \in Errors : ErrLe(e, o)
\* The candidates the filter of line 87 lets through.
Survivors == {k \in Solved : ErrBelow(objs[k].error, matching_threshold)}
ReturnedIdxs ==
    IF outcome.kind = "return"
    THEN {outcome.value[k].source_point_idxs : k \in 1..Len(outcome.value)}
    ELSE {}

\* C1  triangulate runs one minimisation and creates one candidate for every
\* element of the Cartesian product of the three per-view index lists:
\* n0*n1*n2 combinations, each with its own source_point_idxs triple and
\* its own detections, none skipped and none solved twice.
C1_CartesianProduct ==
    /\ Len(min_calls) = Len(objs)
    /\ pc = "loop" => Len(objs) = ci - 1
    /\ LoopOver =>
          LET n0 == Len(image_points[1])
              n1 == Len(image_points[2])
              n2 == Len(image_points[3])
          IN  /\ Len(objs) = n0 * n1 * n2
              /\ {objs[k].source_point_idxs : k \in Solved}
                    = (0..(n0 - 1)) \X (0..(n1 - 1)) \X (0..(n2 - 1))
              /\ Cardinality({objs[k].source_point_idxs : k \in Solved}) = Len(objs)
              /\ \A k \in Solved :
                    min_calls[k].args = Detections(objs[k].source_point_idxs)

\* A call with 2, 3 and 1 detections has solved its six combinations.
C1_Witness ==
    /\ Finished
    /\ Len(image_points[1]) = 2
    /\ Len(image_points[2]) = 3
    /\ Len(image_points[3]) = 1
    /\ Len(min_calls) = 6

\* e <= t for an error value e and a threshold t
ErrAtMost(e, t) == ErrBelow(e, t) \/ ErrEquals(e, t)

\* C2  (as claimed) The returned list holds exactly the solved candidates
\* whose error is at most matching_threshold, a candidate whose error equals
\* the threshold included.
C2_KeepsUpToThreshold ==
    Finished =>
        ReturnedIdxs = {objs[k].source_point_idxs :
                            k \in {j \in Solved : ErrAtMost(objs[j].error, matching_threshold)}}

\* C3  The returned list is in ascending order of error: each result's
\* error is at most its successor's, so the first is the best survivor.
C3_SortedAscending ==
    outcome.kind = "return" =>
        /\ \A i \in 1..(Len(outcome.value) - 1) :
              ErrLe(outcome.value[i].error, outcome.value[i + 1].error)
        /\ \A k \in Survivors : ErrLe(outcome.value[1].error, objs[k].error)

\* A returned list of several results with different errors whose best
\* result was not the first candidate solved.
C3_Witness ==
    /\ outcome.kind = "return"
    /\ Len(outcome.value) >= 3
    /\ ErrLt(outcome.value[1].error, outcome.value[Len(outcome.value)].error)
    /\ ErrLt(outcome.value[1].error, objs[1].error)
    /\ 1 \in Survivors

\* C4  triangulate raises its no-solution error (the ValueError of line 92)
\* exactly when no candidate passes the filter of line 87, never returns an
\* empty list, and the error carries the least error of all candidates
\* solved (as the message prints it, to two decimals) and the threshold.
C4_NoSolutionError ==
    Finished =>
        /\ RaisedError("ValueError") <=> Survivors = {}
        /\ outcome.kind = "return" <=> Survivors # {}
        /\ outcome.kind = "return" => Len(outcome.value) > 0
        /\ RaisedError("ValueError") =>
              /\ outcome.best = Format2f(LeastError)
              /\ outcome.threshold = matching_threshold

\* A call has raised with a best error above zero that belongs to a
\* candidate other than the last one solved.
C4_Witness ==
    /\ RaisedError("ValueError")
    /\ Len(objs) >= 2
    /\ ~outcome.best.inf
    /\ outcome.best.hundredths > 0
    /\ objs[Len(objs)].error # LeastError

\* C5  With an empty view no minimisation runs and no candidate is created,
\* and the call ends with the no-solution error whose best error is
\* infinity; it never returns a list.
C5_EmptyView ==
    (ArgsAccepted /\ \E c \in 1..3 : image_points[c] = <<>>) =>
        /\ min_calls = <<>>
        /\ objs = <<>>
        /\ outcome.kind # "return"
        /\ pc = "done" => (RaisedError("ValueError") /\ outcome.best = Format2f(Inf))

\* A call whose views 0 and 1 hold detections and whose view 2 is empty has
\* ended.
C5_Witness ==
    /\ pc = "done"
    /\ ArgsAccepted
    /\ image_points[1] # <<>>
    /\ image_points[2] # <<>>
    /\ image_points[3] = <<>>
    /\ RaisedError("ValueError")

\* C6  Every returned ObjectPoint has three re-projected points, entry c the
\* projection of its point_3d through camera c of the triplet; all
\* survivors are returned with them, and no candidate has them before the
\* filter and sort, nor a filtered-out candidate ever.
C6_Reprojection ==
    /\ outcome.kind = "return" =>
          /\ Len(outcome.value) = Cardinality(Survivors)
          /\ \A k \in 1..Len(outcome.value) :
                /\ Len(outcome.value[k].reprojected_points_2d) = 3
                /\ \A c \in 1..3 :
                      outcome.value[k].reprojected_points_2d[c]
                          = project_to_2d(cams_model[c], outcome.value[k].point_3d, TRUE)
    /\ pc \in {"call", "loop"} =>
          \A k \in Solved : objs[k].reprojected_points_2d = None
    /\ \A k \in Solved :
          ~ErrBelow(objs[k].error, matching_threshold)
              => objs[k].reprojected_points_2d = None

\* A call has returned fewer results than it solved, the first with
\* different pixels in cameras 0 and 1.
C6_Witness ==
    /\ outcome.kind = "return"
    /\ Len(outcome.value) < Len(objs)
    /\ Len(outcome.value) >= 2
    /\ outcome.value[1].reprojected_points_2d[1] # outcome.value[1].reprojected_points_2d[2]

SameCandidate(a, b) == a.point_3d = b.point_3d /\ a.error = b.error

\* C7  Every minimisation starts from the same initial guess (the caller's
\* x0, or (1, 1, 500)); the candidate of a triple of detections is the
\* minimiser's result from that guess on that triple alone, the same for
\* equal triples within a call and across calls in any order; and a second
\* call with the same arguments has the same outcome.
C7_Deterministic ==
    /\ \A k \in 1..Len(min_calls) : min_calls[k].x0 = EffectiveX0
    /\ (pc = "loop" /\ ci > 1) =>
          SameCandidate(objs[ci - 1],
                        ObjectPoint(cameras,
                                    Minimized[<<cameras, EffectiveX0,
                                                Detections(objs[ci - 1].source_point_idxs)>>],
                                    objs[ci - 1].source_point_idxs))
    /\ LoopOver =>
          /\ \A j, k \in Solved :
                min_calls[j].args = min_calls[k].args => SameCandidate(objs[j], objs[k])
          /\ \A j \in 1..Len(prev_objs) : \A k \in Solved :
                prev_min_calls[j].args = min_calls[k].args
                    => SameCandidate(prev_objs[j], objs[k])
    /\ (call_no = 2 /\ pc = "done" /\ image_points = prev_image_points) =>
          outcome = prev_outcome

\* A second call on the detections in the opposite order, from the default
\* guess, has returned several different candidates.
C7_Witness ==
    /\ call_no = 2
    /\ pc = "done"
    /\ x0 = None
    /\ image_points # prev_image_points
    /\ outcome.kind = "return"
    /\ Len(objs) >= 4
    /\ objs[1].point_3d # objs[2].point_3d
    /\ objs[1].point_3d # DefaultX0

-----------------------------------------------------------------------------
(* Properties of PinholeCamera, checked under SpecCam.                     *)

ZeroDistortion == Vec(<<0, 0, 0, 0, 0>>)
BothProjected == cam_outs[TRUE] # None /\ cam_outs[FALSE] # None
FrontOfPoint == CameraFrame(cam, cam_point)[3]

\* C8  Distortion identity: a camera whose five distortion coefficients are
\* all zero projects every point with non-zero camera-frame Z to the same
\* pixel with distort=True as with distort=False, with or without a shift.
C8_DistortionIdentity ==
    (/\ cam # NoObject
     /\ cam.distortion = ZeroDistortion
     /\ BothProjected
     /\ FrontOfPoint # 0)
    => cam_outs[TRUE] = cam_outs[FALSE]

\* A camera with zero coefficients and a shift has projected an off-axis
\* point both ways.
C8_Witness ==
    /\ cam # NoObject
    /\ cam.distortion = ZeroDistortion
    /\ cam.shift # None
    /\ BothProjected
    /\ FrontOfPoint # 0
    /\ cam_outs[FALSE] # <<R(At2(cam.matrix, 0, 2)), R(At2(cam.matrix, 1, 2))>>

\* The projection as the specification words it, step by step: rotate and
\* translate, divide by Z, add shift / focal length, distort (radial and
\* tangential, in expanded form), scale by the focal length and add the
\* principal point.
C9_Steps(c, p, distort) ==
    LET rot(i, j) == At2(c.pose, i, j)
        X == rot(0, 0) * p[1] + rot(0, 1) * p[2] + rot(0, 2) * p[3] + At2(c.pose, 0, 3)
        Y == rot(1, 0) * p[1] + rot(1, 1) * p[2] + rot(1, 2) * p[3] + At2(c.pose, 1, 3)
        Z == rot(2, 0) * p[1] + rot(2, 1) * p[2] + rot(2, 2) * p[3] + At2(c.pose, 2, 3)
        fx == R(At2(c.matrix, 0, 0))
        fy == R(At2(c.matrix, 1, 1))
        cx == R(At2(c.matrix, 0, 2))
        cy == R(At2(c.matrix, 1, 2))
        x1 == Rat(X, Z)
        y1 == Rat(Y, Z)
        x2 == IF c.shift = None THEN x1 ELSE RAdd(x1, RDiv(R(c.shift[1]), fx))
        y2 == IF c.shift = None THEN y1 ELSE RAdd(y1, RDiv(R(c.shift[2]), fy))
        k(i) == R(c.distortion.data[i])
        r2 == RAdd(RMul(x2, x2), RMul(y2, y2))
        r4 == RMul(r2, r2)
        r6 == RMul(r4, r2)
        radial == RAdd(RAdd(R(1), RMul(k(1), r2)), RAdd(RMul(k(2), r4), RMul(k(5), r6)))
        xy == RMul(x2, y2)
        x3 == RAdd(RAdd(RMul(x2, radial), RMul(RMul(R(2), k(3)), xy)),
                   RMul(k(4), RAdd(r2, RMul(R(2), RMul(x2, x2)))))
        y3 == RAdd(RAdd(RMul(y2, radial), RMul(k(3), RAdd(r2, RMul(R(2), RMul(y2, y2))))),
                   RMul(RMul(R(2), k(4)), xy))
        distorted == distort /\ c.distortion # NoObject
    IN  <<RAdd(RMul(fx, IF distorted THEN x3 ELSE x2), cx),
          RAdd(RMul(fy, IF distorted THEN y3 ELSE y2), cy)>>

\* C9  project_to_2d applies its steps in the fixed order rotate+translate,
\* divide by Z, add shift/focal (only with a shift), distort (only when
\* requested and the camera has coefficients), scale and offset; and
\* distort=True on a camera without coefficients equals distort=False.
C9_StepOrder ==
    (cam # NoObject /\ cam_point # None /\ FrontOfPoint # 0) =>
        /\ \A d \in BOOLEAN :
              cam_outs[d] # None => cam_outs[d] = C9_Steps(cam, cam_point, d)
        /\ (cam.distortion = NoObject /\ BothProjected)
              => cam_outs[TRUE] = cam_outs[FALSE]

\* A shifted camera with non-zero coefficients has projected a point with
\* distortion and the distortion moved the pixel.
C9_Witness ==
    /\ cam # NoObject
    /\ cam.shift # None
    /\ cam.distortion # NoObject
    /\ cam.distortion # ZeroDistortion
    /\ BothProjected
    /\ FrontOfPoint # 0
    /\ cam_outs[TRUE] # cam_outs[FALSE]

C10_Malformed(a) ==
    \/ a.pose.shape # <<4, 4>>
    \/ a.matrix.shape # <<3, 3>>
    \/ (a.distortion # NoObject /\ a.distortion.shape # <<5>>)

\* C10  Constructing a PinholeCamera raises, and yields no object, whenever
\* the pose is not 4x4, the matrix is not 3x3 or a supplied distortion is
\* not a 5-vector; it succeeds when the distortion is omitted; the stored
\* rotation and translation are pose[0..2][0..2] and pose[0..2][3].
C10_Construction ==
    cam_args # NoArgs =>
        /\ C10_Malformed(cam_args) => (cam_error = "AssertionError" /\ cam = NoObject)
        /\ (/\ cam_args.pose.shape = <<4, 4>>
            /\ cam_args.matrix.shape = <<3, 3>>
            /\ cam_args.distortion = NoObject)
           => (cam_error = "none" /\ cam # NoObject)
        /\ cam # NoObject =>
              /\ cam.rotation.shape = <<3, 3>>
              /\ cam.translation.shape = <<3>>
              /\ \A i \in 0..2 :
                    /\ cam.translation.data[i + 1] = cam_args.pose.data[4 * i + 4]
                    /\ \A j \in 0..2 :
                          cam.rotation.data[3 * i + j + 1] = cam_args.pose.data[4 * i + j + 1]

\* A construction with a well-shaped pose and matrix but a distortion that
\* is not a 5-vector has failed and left no object.
C10_WitnessFail ==
    /\ cam_args # NoArgs
    /\ cam_args.pose.shape = <<4, 4>>
    /\ cam_args.matrix.shape = <<3, 3>>
    /\ cam_args.distortion # NoObject
    /\ cam_args.distortion.shape # <<5>>
    /\ cam = NoObject

-----------------------------------------------------------------------------
(* DynamicCameras  (wormlab3d/midlines3d/dynamic_cameras.py)                *)
(*                                                                         *)
(* A tensor is [shape, data] with row-major data, as a numpy array is.     *)

N_CAM_COEFFICIENTS == 22

\* Bounds of the model
MaxBatch == 2
MaxPts == 2

Tensor(shape, data) == [shape |-> shape, data |-> data]
\* t[b, c, i] of a 3-D tensor and t[b, c, i, j] of a 4-D tensor, 0-based
T3(t, b, c, i) == t.data[(b * t.shape[2] + c) * t.shape[3] + i + 1]
T4(t, b, c, i, j) ==
    t.data[((b * t.shape[2] + c) * t.shape[3] + i) * t.shape[4] + j + 1]
\* t[b, c] of a 2-D tensor
T2(t, b, c) == t.data[b * t.shape[2] + c + 1]

\* Variant of Slice3: the slice starts one place early.
Slice3_OneEarly(t, lo, hi) ==
    Tensor(<<t.shape[1], t.shape[2], hi - lo>>,
           [k \in 1..(t.shape[1] * t.shape[2] * (hi - lo)) |->
               T3(t, (k - 1) \div (t.shape[2] * (hi - lo)),
                     ((k - 1) \div (hi - lo)) % t.shape[2],
                     IF lo = 0 THEN 0 ELSE lo - 1 + ((k - 1) % (hi - lo)))])

\* coefficients[:, :, lo:hi]
Slice3(t, lo, hi) ==
    Tensor(<<t.shape[1], t.shape[2], hi - lo>>,
           [k \in 1..(t.shape[1] * t.shape[2] * (hi - lo)) |->
               T3(t, (k - 1) \div (t.shape[2] * (hi - lo)),
                     ((k - 1) \div (hi - lo)) % t.shape[2],
                     lo + ((k - 1) % (hi - lo)))])

\* t.reshape(shape): the same data under another shape
Reshape(t, shape) == Tensor(shape, t.data)

\* __init__ (lines 24-34): the flag and eight empty buffers.
DynamicCameras(distort) ==
    [distort |-> distort,
     fx |-> Tensor(<<0, 3, 1>>, <<>>),
     fy |-> Tensor(<<0, 3, 1>>, <<>>),
     cx |-> Tensor(<<0, 3, 1>>, <<>>),
     cy |-> Tensor(<<0, 3, 1>>, <<>>),
     rotation |-> Tensor(<<0, 3, 3, 3>>, <<>>),
     translation |-> Tensor(<<0, 3, 3>>, <<>>),
     distortion |-> Tensor(<<0, 3, 5>>, <<>>),
     shifts |-> Tensor(<<0, 3>>, <<>>)]

\* The three assertions of extract_coefficients (lines 40-42)
CoefficientsOk(self, coefficients) ==
    /\ Len(coefficients.shape) = 3
    /\ coefficients.shape[2] = 3
    /\ coefficients.shape[3] = N_CAM_COEFFICIENTS

\* The two assertions of forward (lines 60-61)
PointsOk(points) ==
    /\ Len(points.shape) = 3
    /\ points.shape[3] = 3

\* Variant of extract_coefficients: the shifts buffer is written only when
\* it has the wrong size.
extract_coefficients_StaleShifts(self, coefficients) ==
    [self EXCEPT
        !.fx = Slice3(coefficients, 0, 1),
        !.fy = Slice3(coefficients, 1, 2),
        !.cx = Slice3(coefficients, 2, 3),
        !.cy = Slice3(coefficients, 3, 4),
        !.rotation = Reshape(Slice3(coefficients, 4, 13), <<coefficients.shape[1], 3, 3, 3>>),
        !.translation = Slice3(coefficients, 13, 16),
        !.distortion = Slice3(coefficients, 16, 21),
        !.shifts = IF self.shifts.shape[1] = coefficients.shape[1] THEN self.shifts
                   ELSE Reshape(Slice3(coefficients, 21, 22),
                                <<coefficients.shape[1], coefficients.shape[2]>>)]

\* extract_coefficients, lines 43-53: the instance with its buffers rebound.
extract_coefficients(self, coefficients) ==
    [self EXCEPT
        !.fx = Slice3(coefficients, 0, 1),
        !.fy = Slice3(coefficients, 1, 2),
        !.cx = Slice3(coefficients, 2, 3),
        !.cy = Slice3(coefficients, 3, 4),
        !.rotation = Reshape(Slice3(coefficients, 4, 13), <<coefficients.shape[1], 3, 3, 3>>),
        !.translation = Slice3(coefficients, 13, 16),
        !.distortion = Slice3(coefficients, 16, 21),
        !.shifts = Reshape(Slice3(coefficients, 21, 22),
                           <<coefficients.shape[1], coefficients.shape[2]>>)]

\* The buffers of an instance, without its flag.
Buffers(self) ==
    <<self.fx, self.fy, self.cx, self.cy, self.rotation, self.translation,
      self.distortion, self.shifts>>

\* Broadcasting: the index into a buffer whose batch dimension has size 1
BIdx(t, b) == IF t.shape[1] = 1 THEN 0 ELSE b

\* What lines 65-76 need of the two batch sizes: einsum broadcasts a batch
\* of size 1 and raises on any other mismatch, and the assignments of lines
\* 74-76 need the buffer's batch to be the points' batch or 1.
BatchesOk(self, points) ==
    \/ self.rotation.shape[1] = points.shape[1]
    \/ self.rotation.shape[1] = 1

\* xyz[b, c, p, :]  (lines 65-66)
RotateTranslate(self, points, b, c, p) ==
    [i \in 1..3 |->
        T4(self.rotation, BIdx(self.rotation, b), c, i - 1, 0) * T3(points, b, p, 0)
      + T4(self.rotation, BIdx(self.rotation, b), c, i - 1, 1) * T3(points, b, p, 1)
      + T4(self.rotation, BIdx(self.rotation, b), c, i - 1, 2) * T3(points, b, p, 2)
      + T3(self.translation, BIdx(self.translation, b), c, i - 1)]

\* x, y = xyz[..., 0] / xyz[..., 2], xyz[..., 1] / xyz[..., 2]  (lines 69-70)
DynDivide(xyz) ==
    IF xyz[3] = 0 THEN NonFinite ELSE <<Rat(xyz[1], xyz[3]), Rat(xyz[2], xyz[3])>>

\* Variant of ShiftEntry: camera 1's shift keeps its sign.
ShiftEntry_NoFlip(self, b, c, axis) ==
    IF c = 0 /\ axis = 0 THEN T2(self.shifts, BIdx(self.shifts, b), 0)
    ELSE IF c = 1 /\ axis = 1 THEN T2(self.shifts, BIdx(self.shifts, b), 1)
    ELSE IF c = 2 /\ axis = 1 THEN T2(self.shifts, BIdx(self.shifts, b), 2)
    ELSE 0

\* shifts[b, c, axis] of the local tensor shifts, after lines 73-76
ShiftEntry(self, b, c, axis) ==
    IF c = 0 /\ axis = 0 THEN T2(self.shifts, BIdx(self.shifts, b), 0)
    ELSE IF c = 1 /\ axis = 1 THEN -T2(self.shifts, BIdx(self.shifts, b), 1)
    ELSE IF c = 2 /\ axis = 1 THEN T2(self.shifts, BIdx(self.shifts, b), 2)
    ELSE 0

\* x + shifts[:, :, 0] / self.fx, y + shifts[:, :, 1] / self.fy  (lines 78-79)
DynAddShift(self, b, c, xy) ==
    IF xy = NonFinite THEN NonFinite
    ELSE <<RAdd(xy[1], RDiv(R(ShiftEntry(self, b, c, 0)),
                            R(T3(self.fx, BIdx(self.fx, b), c, 0)))),
           RAdd(xy[2], RDiv(R(ShiftEntry(self, b, c, 1)),
                            R(T3(self.fy, BIdx(self.fy, b), c, 0))))>>

\* x, y after line 79, for every batch item, camera and point
ShiftedXY(self, points) ==
    Tensor(<<points.shape[1], 3, points.shape[2]>>,
           [k \in 1..(points.shape[1] * 3 * points.shape[2]) |->
               DynAddShift(self, (k - 1) \div (3 * points.shape[2]),
                           ((k - 1) \div points.shape[2]) % 3,
                           DynDivide(RotateTranslate(self, points,
                                         (k - 1) \div (3 * points.shape[2]),
                                         ((k - 1) \div points.shape[2]) % 3,
                                         (k - 1) % points.shape[2])))])

\* k_term = 1 + k1 * r2 + k2 * r4 + k3 * r6  (lines 86-88)
KTerm(k1, k2, k3, r2, r4) ==
    RAdd(RAdd(RAdd(R(1), RMul(k1, r2)), RMul(k2, r4)), RMul(k3, RMul(r4, r2)))

\* Variant of DistortedXY: p1 and p2 change places.
DistortedXY_TangentialSwapped(p1, p2, x, y, xy, r2, k_term) ==
    <<RAdd(RAdd(RMul(x, k_term), RMul(RMul(R(2), p2), xy)),
           RMul(p1, RAdd(r2, RMul(R(2), RMul(x, x))))),
      RAdd(RAdd(RMul(y, k_term), RMul(p2, RAdd(r2, RMul(R(2), RMul(y, y))))),
           RMul(RMul(R(2), p1), xy))>>

\* Lines 89-90, given xy, r2 and k_term
DistortedXY(p1, p2, x, y, xy, r2, k_term) ==
    <<RAdd(RAdd(RMul(x, k_term), RMul(RMul(R(2), p1), xy)),
           RMul(p2, RAdd(r2, RMul(R(2), RMul(x, x))))),
      RAdd(RAdd(RMul(y, k_term), RMul(p1, RAdd(r2, RMul(R(2), RMul(y, y))))),
           RMul(RMul(R(2), p2), xy))>>

DynDistortR2(k1, k2, p1, p2, k3, x, y, r2) ==
    DistortedXY(p1, p2, x, y, RMul(x, y), r2, KTerm(k1, k2, k3, r2, RMul(r2, r2)))

\* if self.distort: ...  (lines 82-90), for one batch item, camera and point
DynDistort(self, b, c, xy) ==
    IF xy = NonFinite \/ ~self.distort THEN xy
    ELSE DynDistortR2(R(T3(self.distortion, BIdx(self.distortion, b), c, 0)),
                      R(T3(self.distortion, BIdx(self.distortion, b), c, 1)),
                      R(T3(self.distortion, BIdx(self.distortion, b), c, 2)),
                      R(T3(self.distortion, BIdx(self.distortion, b), c, 3)),
                      R(T3(self.distortion, BIdx(self.distortion, b), c, 4)),
                      xy[1], xy[2],
                      RAdd(RMul(xy[1], xy[1]), RMul(xy[2], xy[2])))

\* u = self.fx * x + self.cx, v = self.fy * y + self.cy  (lines 92-93)
DynPixels(self, b, c, xy) ==
    IF xy = NonFinite THEN <<NonFinite, NonFinite>>
    ELSE <<RAdd(RMul(R(T3(self.fx, BIdx(self.fx, b), c, 0)), xy[1]),
                R(T3(self.cx, BIdx(self.cx, b), c, 0))),
           RAdd(RMul(R(T3(self.fy, BIdx(self.fy, b), c, 0)), xy[2]),
                R(T3(self.cy, BIdx(self.cy, b), c, 0)))>>

\* out = torch.stack([u, v], dim=-1)  (lines 82-94), from x, y of line 79
StackedPixels(self, xy) ==
    Tensor(<<xy.shape[1], xy.shape[2], xy.shape[3], 2>>,
           [k \in 1..(2 * Len(xy.data)) |->
               DynPixels(self, (k - 1) \div (2 * xy.shape[2] * xy.shape[3]),
                         ((k - 1) \div (2 * xy.shape[3])) % xy.shape[2],
                         DynDistort(self, (k - 1) \div (2 * xy.shape[2] * xy.shape[3]),
                                    ((k - 1) \div (2 * xy.shape[3])) % xy.shape[2],
                                    xy.data[((k - 1) \div 2) + 1]))[((k - 1) % 2) + 1]])

-----------------------------------------------------------------------------
(* The arguments a caller may hand to forward.                             *)

\* One camera's 22 coefficients
Cam22(fx, fy, cx, cy, rot, t, dist, shift) ==
    <<fx, fy, cx, cy>> \o rot \o t \o dist \o <<shift>>
RotIdentity == <<1, 0, 0,  0, 1, 0,  0, 0, 1>>
RotTurn == <<0, -1, 0,  1, 0, 0,  0, 0, 1>>
RotTilt == <<1, 0, 0,  0, 0, -1,  0, 1, 0>>

\* Two camera triplets, no two cameras alike
TripletA ==
    Cam22(2, 2, 0, 0, RotIdentity, <<0, 0, 1>>, <<0, 0, 0, 0, 0>>, 1)
 \o Cam22(2, 1, 1, -1, RotTurn, <<1, 0, 1>>, <<1, -1, 1, -1, 2>>, 2)
 \o Cam22(1, 2, 0, 1, RotIdentity, <<0, 1, 1>>, <<0, 0, 1, 0, 0>>, 3)
TripletB ==
    Cam22(1, 1, 1, 0, RotTurn, <<0, 1, 2>>, <<0, 1, 0, 2, 0>>, -1)
 \o Cam22(1, 2, 0, 0, RotTilt, <<0, 0, 3>>, <<0, 0, 0, 0, 0>>, 1)
 \o Cam22(3, 1, -1, 1, RotIdentity, <<1, 1, 1>>, <<1, 0, 0, 0, 1>>, -2)
TripletPool == <<TripletA, TripletB>>

RECURSIVE Flatten(_)
Flatten(seqs) == IF seqs = <<>> THEN <<>> ELSE Head(seqs) \o Flatten(Tail(seqs))

\* A batch of n triplets, starting at triplet o of the pool
CoefficientBatch(n, o) ==
    Tensor(<<n, 3, N_CAM_COEFFICIENTS>>,
           Flatten([b \in 1..n |-> TripletPool[((o + b) % Len(TripletPool)) + 1]]))

\* Malformed coefficients: a triplet without the batch dimension, a pair of
\* cameras, cameras without their last coefficient.
Coefficients2D == Tensor(<<3, N_CAM_COEFFICIENTS>>, TripletA)
CoefficientsPair == Tensor(<<1, 2, N_CAM_COEFFICIENTS>>, SubSeq(TripletA, 1, 2 * N_CAM_COEFFICIENTS))
Coefficients21 ==
    Tensor(<<1, 3, N_CAM_COEFFICIENTS - 1>>, SubSeq(TripletA, 1, 3 * (N_CAM_COEFFICIENTS - 1)))

CoefficientTensors ==
    {CoefficientBatch(n, o) : n \in 1..MaxBatch, o \in 0..(Len(TripletPool) - 1)}
        \cup {Coefficients2D, CoefficientsPair, Coefficients21}

\* The last point lies in the plane Z = 0 of TripletA's camera 0.
PointPool == <<<<1, 2, 1>>, <<1, -1, 2>>, <<0, 0, 1>>, <<2, 1, -1>>>>

\* n batch items of m points each, taken from the pool starting at o
PointBatch(n, m, o) ==
    Tensor(<<n, m, 3>>,
           Flatten([k \in 1..(n * m) |-> PointPool[((o + k) % Len(PointPool)) + 1]]))

\* Malformed points: 2-D points, points without the batch dimension
Points2D == Tensor(<<1, 2, 2>>, <<1, 2, 0, 1>>)
PointsFlat == Tensor(<<2, 3>>, <<1, 2, 1, 0, 0, 1>>)

PointTensors ==
    {PointBatch(n, m, o) : n \in 1..MaxBatch, m \in 1..MaxPts, o \in 0..(Len(PointPool) - 1)}
        \cup {Points2D, PointsFlat}

-----------------------------------------------------------------------------
(* forward as actions: one per statement group.                            *)

DynRaised(error) == [kind |-> "raise", error |-> error]

\* After dyn = DynamicCameras(distort)
DynInit ==
    /\ dyn \in {DynamicCameras(distort) : distort \in BOOLEAN}
    /\ dyn_pc = "idle"
    /\ dyn_args = NoArgs
    /\ dyn_before = NoObject
    /\ dyn_xy = None
    /\ dyn_out = NoOutcome

\* The caller calls dyn.forward(coefficients, points).
DynCall ==
    /\ dyn_pc = "idle"
    /\ \E coefficients \in CoefficientTensors, points \in PointTensors :
          dyn_args' = [coefficients |-> coefficients, points |-> points]
    /\ dyn_before' = dyn
    /\ dyn_xy' = None
    /\ dyn_out' = NoOutcome
    /\ dyn_pc' = "called"
    /\ UNCHANGED dyn
    /\ UNCHANGED notDyn

\* Lines 60-62: the assertions on the points, then extract_coefficients
\* (its assertions, then its assignments).
DynExtract ==
    /\ dyn_pc = "called"
    /\ IF PointsOk(dyn_args.points) /\ CoefficientsOk(dyn, dyn_args.coefficients)
       THEN /\ dyn' = extract_coefficients(dyn, dyn_args.coefficients)
            /\ dyn_pc' = "extracted"
            /\ UNCHANGED dyn_out
       ELSE /\ dyn_out' = DynRaised("AssertionError")
            /\ dyn_pc' = "idle"
            /\ UNCHANGED dyn
    /\ UNCHANGED <<dyn_args, dyn_before, dyn_xy>>
    /\ UNCHANGED notDyn

\* Lines 65-79: rotate and translate, divide, apply the shifts.
DynShift ==
    /\ dyn_pc = "extracted"
    /\ IF BatchesOk(dyn, dyn_args.points)
       THEN /\ dyn_xy' = ShiftedXY(dyn, dyn_args.points)
            /\ dyn_pc' = "shifted"
            /\ UNCHANGED dyn_out
       ELSE /\ dyn_out' = DynRaised("RuntimeError")
            /\ dyn_pc' = "idle"
            /\ UNCHANGED dyn_xy
    /\ UNCHANGED <<dyn, dyn_args, dyn_before>>
    /\ UNCHANGED notDyn

\* Lines 81-96: distort, scale and offset, stack, return.
DynFinish ==
    /\ dyn_pc = "shifted"
    /\ dyn_out' = Returned(StackedPixels(dyn, dyn_xy))
    /\ dyn_pc' = "idle"
    /\ UNCHANGED <<dyn, dyn_args, dyn_before, dyn_xy>>
    /\ UNCHANGED notDyn

InitDyn ==
    DynInit /\ CamIdle /\ TriIdle /\ TumIdle /\ ParIdle /\ RTIdle /\ VidIdle
       /\ FcIdle /\ SegIdle
NextDyn ==
    \/ DynCall
    \/ DynExtract
    \/ DynShift
    \/ DynFinish
SpecDyn == InitDyn /\ [][NextDyn]_vars

-----------------------------------------------------------------------------
(* Properties of DynamicCameras, checked under SpecDyn.                    *)

DynCalled == dyn_args # NoArgs
DynEnded == DynCalled /\ dyn_pc = "idle"
DynReturned == dyn_out.kind = "return"
DynFailed == dyn_out.kind = "raise"
\* The shapes the contract asks for: Batch x 3 x 22 and Batch x P x 3
CoefficientsShaped(a) ==
    /\ Len(a.coefficients.shape) = 3
    /\ a.coefficients.shape[2] = 3
    /\ a.coefficients.shape[3] = 22
PointsShaped(a) ==
    /\ Len(a.points.shape) = 3
    /\ a.points.shape[3] = 3
SameBatch(a) == a.coefficients.shape[1] = a.points.shape[1]
WellShaped(a) == CoefficientsShaped(a) /\ PointsShaped(a) /\ SameBatch(a)

\* C11  (as claimed) A forward call whose coefficients are not Batch x 3 x 22
\* or whose points are not Batch x P x 3 fails with the shape error before
\* any projection is computed, and a failed call leaves the buffers as they
\* were when it began.
C11_FailsFastBuffersKept ==
    DynEnded =>
        /\ ~WellShaped(dyn_args) =>
              (dyn_out = DynRaised("AssertionError") /\ dyn_xy = None)
        /\ DynFailed => Buffers(dyn) = Buffers(dyn_before)


\* coefficients[b, c, k] of the call's argument, 0-based
ArgCoefficient(b, c, k) ==
    dyn_args.coefficients.data[(b * 3 + c) * 22 + k + 1]
\* The call has come past extract_coefficients.
DynExtracted ==
    /\ DynCalled
    /\ dyn_pc \in {"extracted", "shifted"} \/ (dyn_pc = "idle" /\ dyn_out # DynRaised("AssertionError"))
\* Item b of the coefficients as a batch of one, point p of item b as a
\* batch of one point
CoefficientItem(b) ==
    Tensor(<<1, 3, 22>>, [k \in 1..66 |-> dyn_args.coefficients.data[b * 66 + k]])
PointItem(b, p) ==
    Tensor(<<1, 1, 3>>,
           [k \in 1..3 |-> dyn_args.points.data[(b * dyn_args.points.shape[2] + p) * 3 + k]])
\* forward on a given instance, for arguments that pass every check
ForwardOn(self, coefficients, points) ==
    StackedPixels(extract_coefficients(self, coefficients),
                  ShiftedXY(extract_coefficients(self, coefficients), points))
\* out[b, c, p] as the pair <<u, v>>
OutPixel(out, b, c, p) ==
    <<out.data[((b * 3 + c) * out.shape[3] + p) * 2 + 1],
      out.data[((b * 3 + c) * out.shape[3] + p) * 2 + 2]>>

\* C12  Once extract_coefficients has run, the buffers hold the 22
\* coefficients of every camera in disjoint fields: fx, fy, cx, cy at 0..3,
\* the rotation row-major at 4..12, the translation at 13..15, the distortion
\* k1, k2, p1, p2, k3 at 16..20 and the shift at 21.  A call with equal batch
\* sizes returns a Batch x 3 x P x 2 tensor whose entry [b, c, p] is what
\* forward gives for item b's cameras and point p of item b alone.
C12_LayoutAndNoMixing ==
    /\ DynExtracted =>
          \A b \in 0..(dyn_args.coefficients.shape[1] - 1), c \in 0..2 :
              /\ T3(dyn.fx, b, c, 0) = ArgCoefficient(b, c, 0)
              /\ T3(dyn.fy, b, c, 0) = ArgCoefficient(b, c, 1)
              /\ T3(dyn.cx, b, c, 0) = ArgCoefficient(b, c, 2)
              /\ T3(dyn.cy, b, c, 0) = ArgCoefficient(b, c, 3)
              /\ \A i, j \in 0..2 :
                    T4(dyn.rotation, b, c, i, j) = ArgCoefficient(b, c, 4 + 3 * i + j)
              /\ \A i \in 0..2 :
                    T3(dyn.translation, b, c, i) = ArgCoefficient(b, c, 13 + i)
              /\ \A i \in 0..4 :
                    T3(dyn.distortion, b, c, i) = ArgCoefficient(b, c, 16 + i)
              /\ T2(dyn.shifts, b, c) = ArgCoefficient(b, c, 21)
    /\ (DynEnded /\ WellShaped(dyn_args)) =>
          /\ DynReturned
          /\ dyn_out.value.shape =
                <<dyn_args.points.shape[1], 3, dyn_args.points.shape[2], 2>>
          /\ Len(dyn_out.value.data) =
                dyn_args.points.shape[1] * 3 * dyn_args.points.shape[2] * 2
          /\ \A b \in 0..(dyn_args.points.shape[1] - 1),
                p \in 0..(dyn_args.points.shape[2] - 1), c \in 0..2 :
                OutPixel(dyn_out.value, b, c, p) =
                    OutPixel(ForwardOn(DynamicCameras(dyn.distort),
                                       CoefficientItem(b), PointItem(b, p)), 0, c, 0)

\* A call with two different batch items of two points each has returned.
C12_Witness ==
    /\ DynEnded /\ DynReturned
    /\ dyn_args.coefficients.shape = <<2, 3, 22>>
    /\ dyn_args.points.shape = <<2, 2, 3>>
    /\ CoefficientItem(0) # CoefficientItem(1)
    /\ OutPixel(dyn_out.value, 1, 2, 1) # <<NonFinite, NonFinite>>
    /\ OutPixel(dyn_out.value, 1, 2, 1) # OutPixel(dyn_out.value, 0, 2, 1)


\* points[b, p, i] of the call's argument, 0-based
ArgPoint(b, p, i) ==
    dyn_args.points.data[(b * dyn_args.points.shape[2] + p) * 3 + i + 1]
\* Row i of camera c's rotation applied to point p, plus the translation
ArgCameraFrame(b, c, p, i) ==
      ArgCoefficient(b, c, 4 + 3 * i) * ArgPoint(b, p, 0)
    + ArgCoefficient(b, c, 5 + 3 * i) * ArgPoint(b, p, 1)
    + ArgCoefficient(b, c, 6 + 3 * i) * ArgPoint(b, p, 2)
    + ArgCoefficient(b, c, 13 + i)
\* The normalized coordinates X/Z, Y/Z of point p before any shift
Unshifted(b, c, p) ==
    <<Rat(ArgCameraFrame(b, c, p, 0), ArgCameraFrame(b, c, p, 2)),
      Rat(ArgCameraFrame(b, c, p, 1), ArgCameraFrame(b, c, p, 2))>>
\* The offsets the claim names, from the shift s and the focal lengths
ClaimedOffset(b, c) ==
    IF c = 0 THEN <<Rat(ArgCoefficient(b, 0, 21), ArgCoefficient(b, 0, 0)), R(0)>>
    ELSE IF c = 1 THEN <<R(0), Rat(-ArgCoefficient(b, 1, 21), ArgCoefficient(b, 1, 1))>>
    ELSE <<R(0), Rat(ArgCoefficient(b, 2, 21), ArgCoefficient(b, 2, 1))>>
\* x, y of line 79 for batch item b, camera c, point p
XYAt(b, c, p) == dyn_xy.data[(b * 3 + c) * dyn_xy.shape[3] + p + 1]

\* C13  The shift of a camera moves one normalized axis by shift / focal
\* length of that axis: camera 0 by +s / fx along x, camera 1 by -s / fy along
\* y, camera 2 by +s / fy along y; the other axis is left alone.
C13_ShiftPerCamera ==
    (DynCalled /\ WellShaped(dyn_args) /\ dyn_xy # None) =>
        \A b \in 0..(dyn_args.points.shape[1] - 1),
           p \in 0..(dyn_args.points.shape[2] - 1), c \in 0..2 :
            IF ArgCameraFrame(b, c, p, 2) = 0
            THEN XYAt(b, c, p) = NonFinite
            ELSE /\ XYAt(b, c, p)[1] =
                        RAdd(Unshifted(b, c, p)[1], ClaimedOffset(b, c)[1])
                 /\ XYAt(b, c, p)[2] =
                        RAdd(Unshifted(b, c, p)[2], ClaimedOffset(b, c)[2])

\* The shifts have been applied in a call where all three cameras have a
\* non-zero shift and see the point in front of them.
C13_Witness ==
    /\ dyn_pc = "shifted"
    /\ WellShaped(dyn_args)
    /\ \E b \in 0..(dyn_args.points.shape[1] - 1) :
          \A c \in 0..2 :
              /\ ArgCoefficient(b, c, 21) # 0
              /\ ArgCameraFrame(b, c, 0, 2) # 0
              /\ XYAt(b, c, 0) # Unshifted(b, c, 0)


\* The PinholeCamera built from camera c of batch item b: the pose from the
\* rotation and translation, the intrinsic matrix from fx, fy, cx, cy, the
\* five distortion coefficients, and the shift pair of that camera.
ArgPose(b, c) ==
    Mat(4, 4, [k \in 1..16 |->
                  IF k > 12 THEN (IF k = 16 THEN 1 ELSE 0)
                  ELSE IF k % 4 = 0 THEN ArgCoefficient(b, c, 13 + ((k - 1) \div 4))
                  ELSE ArgCoefficient(b, c, 4 + 3 * ((k - 1) \div 4) + ((k - 1) % 4))])
ArgShiftPair(b, c) ==
    IF c = 0 THEN <<ArgCoefficient(b, 0, 21), 0>>
    ELSE IF c = 1 THEN <<0, -ArgCoefficient(b, 1, 21)>>
    ELSE <<0, ArgCoefficient(b, 2, 21)>>
ArgPinholeCamera(b, c) ==
    PinholeCamera(ArgPose(b, c),
                  Intrinsic(ArgCoefficient(b, c, 0), ArgCoefficient(b, c, 1),
                            ArgCoefficient(b, c, 2), ArgCoefficient(b, c, 3)),
                  Vec([i \in 1..5 |-> ArgCoefficient(b, c, 15 + i)]),
                  ArgShiftPair(b, c))
ArgPoint3(b, p) == <<ArgPoint(b, p, 0), ArgPoint(b, p, 1), ArgPoint(b, p, 2)>>
\* The pixel as project_to_2d gives it: both entries non-finite when the
\* reference is
AsPixel(uv) == IF uv = NonFinite THEN <<NonFinite, NonFinite>> ELSE uv

\* C14  Entry [b, c, p] of forward's output is what
\* PinholeCamera.project_to_2d gives for point p of item b and the camera
\* built from camera c's coefficients with the shift pair (s, 0), (0, -s) or
\* (0, s), with project_to_2d's distort argument equal to the instance's
\* distort flag.
C14_RefinesPinholeCamera ==
    (DynEnded /\ DynReturned /\ WellShaped(dyn_args)) =>
        \A b \in 0..(dyn_args.points.shape[1] - 1),
           p \in 0..(dyn_args.points.shape[2] - 1), c \in 0..2 :
            OutPixel(dyn_out.value, b, c, p) =
                AsPixel(project_to_2d(ArgPinholeCamera(b, c), ArgPoint3(b, p), dyn.distort))

\* A distorting instance has returned finite pixels for a camera with
\* non-zero distortion coefficients and shift, and they differ from the
\* undistorted projection.
C14_Witness ==
    /\ DynEnded /\ DynReturned /\ WellShaped(dyn_args)
    /\ dyn.distort
    /\ \E b \in 0..(dyn_args.points.shape[1] - 1), c \in 0..2 :
          /\ ArgCoefficient(b, c, 21) # 0
          /\ \A i \in 16..20 : ArgCoefficient(b, c, i) # 0
          /\ OutPixel(dyn_out.value, b, c, 0) # <<NonFinite, NonFinite>>
          /\ OutPixel(dyn_out.value, b, c, 0) #
                AsPixel(project_to_2d(ArgPinholeCamera(b, c), ArgPoint3(b, 0), FALSE))

\* An instance built with distort = False has returned finite pixels for a
\* camera with non-zero distortion coefficients.
C14_WitnessUndistorted ==
    /\ DynEnded /\ DynReturned /\ WellShaped(dyn_args)
    /\ ~dyn.distort
    /\ \E b \in 0..(dyn_args.points.shape[1] - 1), c \in 0..2 :
          /\ \A i \in 16..20 : ArgCoefficient(b, c, i) # 0
          /\ OutPixel(dyn_out.value, b, c, 0) # <<NonFinite, NonFinite>>


\* C15  A call's result depends on that call's coefficients and points and
\* on the distort flag only: it is what a newly built instance returns for
\* the same arguments, whatever the calls before it left in the buffers, and
\* once extract_coefficients has run the buffers are those a new instance
\* would hold for this call's coefficients.
C15_NoStateCarriedOver ==
    /\ DynExtracted =>
          Buffers(dyn) =
              Buffers(extract_coefficients(DynamicCameras(dyn.distort),
                                           dyn_args.coefficients))
    /\ (DynEnded /\ DynReturned) =>
          dyn_out.value = ForwardOn(DynamicCameras(dyn.distort),
                                    dyn_args.coefficients, dyn_args.points)

\* A call has returned on an instance whose buffers held, when the call
\* began, other coefficients of the same batch size.
C15_Witness ==
    /\ DynEnded /\ DynReturned
    /\ dyn_before.fx.shape[1] = dyn_args.coefficients.shape[1]
    /\ dyn_before.shifts # dyn.shifts
    /\ dyn_before.rotation # dyn.rotation

-----------------------------------------------------------------------------
(* Tumble-run approximation  (wormlab3d.particles.tumble_run, called from  *)
(* scripts/particles/tumble_run.py).                                       *)
(*                                                                         *)
(* A trajectory X is a sequence of points <<x, y>> with integer            *)
(* coordinates, a curvature signal k a sequence of integers of the same    *)
(* length; timestep t of the source (0-based) is element t + 1.            *)

\* Bounds of the model
MinLen == 2
MaxLen == 5
MaxK == 2

PreconditionError == [kind |-> "raise", error |-> "PreconditionError"]

\* The local peaks of k: timesteps whose two neighbours are lower.
Peaks(k) == {t \in 1..(Len(k) - 2) : k[t] < k[t + 1] /\ k[t + 2] < k[t + 1]}

\* The peak of a non-empty set that ranks first: the highest, the earliest
\* of equally high ones.
HighestPeak(k, pending) ==
    CHOOSE p \in pending :
        \A q \in pending : k[q + 1] < k[p + 1] \/ (k[q + 1] = k[p + 1] /\ p <= q)

\* Variant of FarEnough: a peak exactly distance steps away is too near.
FarEnough_Beyond(accepted, p, distance) ==
    \A a \in accepted : Abs(a - p) > distance

\* A peak is accepted only if it is >= distance steps from every peak
\* accepted before it.
FarEnough(accepted, p, distance) ==
    \A a \in accepted : Abs(a - p) >= distance

RECURSIVE AcceptPeaks(_, _, _, _)
GreedyStep(k, pending, accepted, distance, p) ==
    AcceptPeaks(k, pending \ {p},
                IF FarEnough(accepted, p, distance) THEN accepted \cup {p} ELSE accepted,
                distance)
\* Peaks taken by decreasing height, each accepted or rejected for good.
AcceptPeaks(k, pending, accepted, distance) ==
    IF pending = {} THEN accepted
    ELSE GreedyStep(k, pending, accepted, distance, HighestPeak(k, pending))

\* A finite set of integers as an increasing sequence
RECURSIVE Ascending(_)
Ascending(S) ==
    IF S = {} THEN <<>>
    ELSE <<CHOOSE m \in S : \A n \in S : m <= n>>
            \o Ascending(S \ {CHOOSE m \in S : \A n \in S : m <= n})

\* The tumble indices: the accepted peaks in time order.
TumbleIdxs(k, distance) == Ascending(AcceptPeaks(k, Peaks(k), {}, distance))

\* The timesteps of the vertices: the first, the tumbles, the last.
VertexSteps(X, tumble_idxs) == <<0>> \o tumble_idxs \o <<Len(X) - 1>>
\* Variant of Vertices: the last point of the trajectory is left out.
Vertices_NoLast(X, tumble_idxs) ==
    [j \in 1..(Len(tumble_idxs) + 1) |-> X[VertexSteps(X, tumble_idxs)[j] + 1]]

\* The vertices: the trajectory's positions at those timesteps.
Vertices(X, tumble_idxs) ==
    [j \in 1..(Len(tumble_idxs) + 2) |-> X[VertexSteps(X, tumble_idxs)[j] + 1]]

\* The run durations: the steps between consecutive tumbles, one entry per
\* pair of consecutive tumbles (what _plot_trial_approximation plots at
\* duration_ts[1:-1], lines 75-77).
RunDurations(X, tumble_idxs) ==
    [j \in 1..(IF Len(tumble_idxs) = 0 THEN 0 ELSE Len(tumble_idxs) - 1) |->
        tumble_idxs[j + 1] - tumble_idxs[j]]

\* The run between vertices j and j + 1 that timestep t falls in
RunOf(steps, t) ==
    CHOOSE j \in 1..(Len(steps) - 1) : steps[j] <= t /\ t <= steps[j + 1]
\* One coordinate interpolated linearly between two vertices
Interpolate(a, b, ta, tb, t) == RAdd(R(a), Rat((b - a) * (t - ta), tb - ta))
InterpolatePoint(va, vb, ta, tb, t) ==
    <<Interpolate(va[1], vb[1], ta, tb, t), Interpolate(va[2], vb[2], ta, tb, t)>>
\* X_approx: the vertices joined by straight lines, at every timestep of X
XApproxAt(X, steps, j, t) ==
    InterpolatePoint(X[steps[j] + 1], X[steps[j + 1] + 1], steps[j], steps[j + 1], t)
XApprox(X, tumble_idxs) ==
    [i \in 1..Len(X) |->
        XApproxAt(X, VertexSteps(X, tumble_idxs),
                  RunOf(VertexSteps(X, tumble_idxs), i - 1), i - 1)]

\* np.sum((X - X_approx)**2, axis=-1) at one timestep
SquaredError(x, xa) ==
    RAdd(RMul(RSub(R(x[1]), xa[1]), RSub(R(x[1]), xa[1])),
         RMul(RSub(R(x[2]), xa[2]), RSub(R(x[2]), xa[2])))
RECURSIVE SumSquaredError(_, _, _)
SumSquaredError(X, X_approx, n) ==
    IF n = 0 THEN R(0)
    ELSE RAdd(SumSquaredError(X, X_approx, n - 1), SquaredError(X[n], X_approx[n]))
\* mse = np.mean(np.sum((X - X_approx)**2, axis=-1))
\* (scripts/particles/tumble_run.py lines 64 and 236)
MSE(X, X_approx) == RDiv(SumSquaredError(X, X_approx, Len(X)), R(Len(X)))

\* The Approximation of a trajectory for given tumble indices.  Of the
\* eleven entries of the tuple the run speeds, the three angles and the
\* frame e0, e1, e2 are left out: no statement below reads them.
Approximation(X, tumble_idxs) ==
    [X_approx |-> XApprox(X, tumble_idxs),
     vertices |-> Vertices(X, tumble_idxs),
     tumble_idxs |-> tumble_idxs,
     run_durations |-> RunDurations(X, tumble_idxs)]

\* get_approximate(X, k, distance): malformed arguments fail fast, any other
\* call returns the Approximation.
get_approximate(X, k, distance) ==
    IF Len(X) # Len(k) \/ distance <= 0 THEN PreconditionError
    ELSE Returned(Approximation(X, TumbleIdxs(k, distance)))

-----------------------------------------------------------------------------
(* The trajectories and signals a caller may pass.                         *)

Straight(n) == [i \in 1..n |-> <<i - 1, 2 * (i - 1)>>]
Uneven(n) == [i \in 1..n |-> <<(i - 1) * (i - 1), 0>>]
Spike(n) == [i \in 1..n |-> <<i - 1, IF i = (n \div 2) + 1 THEN 3 ELSE 0>>]
Zigzag(n) == [i \in 1..n |-> <<i - 1, (i - 1) % 2>>]
Trajectories ==
    UNION {{Straight(n), Uneven(n), Spike(n), Zigzag(n)} : n \in MinLen..MaxLen}
\* The signals of n timesteps, and one that is a timestep short
SignalsFor(n) == [1..n -> 0..MaxK] \cup {[i \in 1..(n - 1) |-> i % 2]}
Distances == 0..(MaxLen + 1)

-----------------------------------------------------------------------------
(* find_approximation: the search for an error limit.                      *)

\* Bound of the model: the largest iteration budget a caller passes
MaxIterations == 3

\* Sliding-window sum of width w centred on each timestep, the window cut
\* off at the ends.  The sliding-window average is this sum over w: every
\* entry is scaled alike, so peaks and their order are those of the sums.
RECURSIVE WindowSum(_, _, _)
WindowSum(sig, lo, hi) ==
    IF hi < lo THEN 0 ELSE sig[hi] + WindowSum(sig, lo, hi - 1)
Smooth(sig, w) ==
    [i \in 1..Len(sig) |->
        WindowSum(sig, IF i - (w \div 2) < 1 THEN 1 ELSE i - (w \div 2),
                       IF i + (w \div 2) > Len(sig) THEN Len(sig) ELSE i + (w \div 2))]
\* The change of heading between consecutive timesteps
AngularChange(e0) ==
    [i \in 1..Len(e0) |-> IF i = 1 THEN 0 ELSE Abs(e0[i] - e0[i - 1])]
\* k: the heading smoothed, differenced, and the result smoothed
Curvature(e0_raw, smooth_e0, smooth_K) ==
    Smooth(AngularChange(Smooth(e0_raw, smooth_e0)), smooth_K)

RAbs(q) == IF q[1] < 0 THEN RNeg(q) ELSE q
\* How far an error is from the limit
Deviation(mse, error_limit) == RAbs(RSub(mse, error_limit))

\* One candidate of the search: mode (a) at one distance and one pair of
\* smoothing windows, with the parameters that produced it.
CandidateOf(X, approx, distance, smooth_e0, smooth_K) ==
    [approx |-> approx, distance |-> distance, smooth_e0 |-> smooth_e0,
     smooth_K |-> smooth_K, mse |-> MSE(X, approx.X_approx)]
SearchCandidate(X, e0_raw, distance, smooth_e0, smooth_K) ==
    CandidateOf(X, get_approximate(X, Curvature(e0_raw, smooth_e0, smooth_K), distance).value,
                distance, smooth_e0, smooth_K)

\* Variant of BestOf: the latest candidate replaces the best.
BestOf_Latest(best, cand, error_limit) == cand

\* The better of the best so far and a new candidate: the one whose error
\* is nearer the limit, the earlier one if they are as near.
BestOf(best, cand, error_limit) ==
    IF best = NoObject THEN cand
    ELSE IF RLt(Deviation(cand.mse, error_limit), Deviation(best.mse, error_limit))
    THEN cand ELSE best

\* The candidate is within tolerance of the limit.
Converged(cand, error_limit, tolerance) ==
    RLe(Deviation(cand.mse, error_limit), tolerance)

\* The bracket an empty search starts from: every distance from 1 to the
\* larger of the trajectory's length and distance_first lies inside it.
FirstBracket(X, distance_first) ==
    [lo |-> 0, hi |-> (IF Len(X) > distance_first THEN Len(X) ELSE distance_first) + 1]

\* The search state after one candidate: the bracket narrowed to the side
\* the limit lies on; once the bracket is empty a smoothing window is
\* narrowed and the bracket opened again, and when no window is left to
\* narrow the search is over.
Narrowed(sr, cand, error_limit) ==
    IF RLt(error_limit, cand.mse) THEN [sr EXCEPT !.hi = sr.distance]
    ELSE [sr EXCEPT !.lo = sr.distance]
NextSearch(X, args, sr) ==
    IF sr.hi - sr.lo > 1
    THEN [sr EXCEPT !.distance = (sr.lo + sr.hi) \div 2]
    ELSE IF sr.smooth_K > 1
    THEN [sr EXCEPT !.smooth_K = sr.smooth_K - 2,
                    !.lo = FirstBracket(X, args.distance_first).lo,
                    !.hi = FirstBracket(X, args.distance_first).hi,
                    !.distance = args.distance_first]
    ELSE IF sr.smooth_e0 > 1
    THEN [sr EXCEPT !.smooth_e0 = sr.smooth_e0 - 2,
                    !.lo = FirstBracket(X, args.distance_first).lo,
                    !.hi = FirstBracket(X, args.distance_first).hi,
                    !.distance = args.distance_first]
    ELSE [sr EXCEPT !.done = TRUE]

\* Headings of n timesteps a caller may pass, and one a timestep short
Headings(n) ==
    {[i \in 1..n |-> 0], [i \in 1..n |-> i % 2], [i \in 1..n |-> (i * i) % 3],
     [i \in 1..n |-> IF i > n \div 2 THEN 2 ELSE 0], [i \in 1..(n - 1) |-> i % 2]}
ErrorLimits == {R(0), Rat(1, 4), R(2)}
Tolerances == {R(0), Rat(1, 4)}
Windows == {1, 3}
SearchTrajectories == {Straight(MaxLen), Spike(MaxLen), Zigzag(MaxLen), Uneven(MaxLen - 1)}

-----------------------------------------------------------------------------
(* The callers of scripts/particles/tumble_run.py as actions.              *)

\* The arguments find_approximation accepts
FindArgsOk(args) ==
    /\ Len(args.X) = Len(args.e0_raw)
    /\ args.distance_first > 0
    /\ RLt(R(0), args.error_limit)

\* The calls the script makes: get_approximate at one distance, the sweep of
\* _plot_mse over an increasing array of distances, find_approximation.
DistanceCall(X, k, distance) ==
    [mode |-> "distance", X |-> X, k |-> k, distance |-> distance]
SweepCall(X, k) ==
    [mode |-> "sweep", X |-> X, k |-> k, distances |-> [i \in 1..(MaxLen + 1) |-> i]]
ErrorCall(X, e0_raw, error_limit, tolerance, max_iterations, distance_first, smooth_e0_first, smooth_K_first) ==
    [mode |-> "error", X |-> X, e0_raw |-> e0_raw, error_limit |-> error_limit,
     tolerance |-> tolerance, max_iterations |-> max_iterations,
     distance_first |-> distance_first, smooth_e0_first |-> smooth_e0_first,
     smooth_K_first |-> smooth_K_first]

\* The script is about to make one of its calls.
TumInit ==
    /\ tum_pc = "start"
    /\ \/ \E X \in Trajectories, distance \in Distances :
             \E k \in SignalsFor(Len(X)) : tum_args = DistanceCall(X, k, distance)
       \/ \E X \in Trajectories :
             \E k \in [1..Len(X) -> 0..MaxK] : tum_args = SweepCall(X, k)
       \/ \E X \in SearchTrajectories, error_limit \in ErrorLimits,
             tolerance \in Tolerances, max_iterations \in 1..MaxIterations,
             distance_first \in {0, 1, MaxLen}, smooth_e0_first \in Windows,
             smooth_K_first \in Windows :
             \E e0_raw \in Headings(Len(X)) :
                 tum_args = ErrorCall(X, e0_raw, error_limit, tolerance, max_iterations,
                                      distance_first, smooth_e0_first, smooth_K_first)
    /\ tum_search = NoObject
    /\ tum_tried = <<>>
    /\ tum_out = NoOutcome

\* _plot_trial_approximations, distances given (lines 190-194): one call of
\* get_approximate.
TumApproximate ==
    /\ tum_pc = "start"
    /\ tum_args.mode = "distance"
    /\ tum_out' = get_approximate(tum_args.X, tum_args.k, tum_args.distance)
    /\ tum_pc' = "done"
    /\ UNCHANGED <<tum_args, tum_search, tum_tried>>
    /\ UNCHANGED notTum

\* _plot_mse (lines 233-236): get_approximate at every distance of the
\* array, and the error of each.
TumPlotMse ==
    /\ tum_pc = "start"
    /\ tum_args.mode = "sweep"
    /\ tum_out' = Returned([i \in 1..Len(tum_args.distances) |->
                      MSE(tum_args.X,
                          get_approximate(tum_args.X, tum_args.k,
                                          tum_args.distances[i]).value.X_approx)])
    /\ tum_pc' = "done"
    /\ UNCHANGED <<tum_args, tum_search, tum_tried>>
    /\ UNCHANGED notTum

\* _plot_trial_approximations, error limits given (lines 196-198): the call
\* of find_approximation, up to the start of its search.
TumFindCall ==
    /\ tum_pc = "start"
    /\ tum_args.mode = "error"
    /\ IF FindArgsOk(tum_args)
       THEN /\ tum_search' = [distance |-> tum_args.distance_first,
                              lo |-> FirstBracket(tum_args.X, tum_args.distance_first).lo,
                              hi |-> FirstBracket(tum_args.X, tum_args.distance_first).hi,
                              smooth_e0 |-> tum_args.smooth_e0_first,
                              smooth_K |-> tum_args.smooth_K_first,
                              iteration |-> 0, done |-> FALSE,
                              best |-> NoObject]
            /\ tum_pc' = "searching"
            /\ UNCHANGED tum_out
       ELSE /\ tum_out' = PreconditionError
            /\ tum_pc' = "done"
            /\ UNCHANGED tum_search
    /\ UNCHANGED <<tum_args, tum_tried>>
    /\ UNCHANGED notTum

\* One iteration of the search: mode (a) at the candidate distance, the
\* best candidate kept, the bracket narrowed.
TumFindIterate ==
    /\ tum_pc = "searching"
    /\ ~tum_search.done
    /\ tum_search.iteration < tum_args.max_iterations
    /\ \E cand \in {SearchCandidate(tum_args.X, tum_args.e0_raw, tum_search.distance,
                                    tum_search.smooth_e0, tum_search.smooth_K)} :
          /\ tum_tried' = Append(tum_tried, cand)
          /\ \E sr \in {[tum_search EXCEPT
                            !.iteration = tum_search.iteration + 1,
                            !.best = BestOf(tum_search.best, cand, tum_args.error_limit)]} :
                tum_search' =
                    IF Converged(cand, tum_args.error_limit, tum_args.tolerance)
                    THEN [sr EXCEPT !.done = TRUE]
                    ELSE NextSearch(tum_args.X, tum_args,
                                    Narrowed(sr, cand, tum_args.error_limit))
    /\ UNCHANGED <<tum_pc, tum_args, tum_out>>
    /\ UNCHANGED notTum

\* The search is over, within tolerance or not: the best candidate is
\* returned with the distance and the windows that produced it.
TumFindReturn ==
    /\ tum_pc = "searching"
    /\ tum_search.done \/ tum_search.iteration = tum_args.max_iterations
    /\ tum_out' = Returned([approx |-> tum_search.best.approx,
                            distance |-> tum_search.best.distance,
                            smooth_e0 |-> tum_search.best.smooth_e0,
                            smooth_K |-> tum_search.best.smooth_K])
    /\ tum_pc' = "done"
    /\ UNCHANGED <<tum_args, tum_search, tum_tried>>
    /\ UNCHANGED notTum

InitTum ==
    TumInit /\ CamIdle /\ TriIdle /\ DynIdle /\ ParIdle /\ RTIdle /\ VidIdle
       /\ FcIdle /\ SegIdle
NextTum ==
    \/ TumApproximate
    \/ TumPlotMse
    \/ TumFindCall
    \/ TumFindIterate
    \/ TumFindReturn
SpecTum == InitTum /\ [][NextTum]_vars

-----------------------------------------------------------------------------
(* Properties of the tumble-run approximation, checked under SpecTum.      *)

TumDone == tum_pc = "done"
TumReturned == TumDone /\ tum_out.kind = "return"
\* The Approximation a finished call returned, in either mode
ReturnedApproximation ==
    IF tum_args.mode = "distance" THEN tum_out.value ELSE tum_out.value.approx
RECURSIVE SumOf(_)
SumOf(seq) == IF seq = <<>> THEN 0 ELSE Head(seq) + SumOf(Tail(seq))

\* C16  (as claimed) The run durations of every Approximation returned by
\* get_approximate or find_approximation sum to the number of steps of the
\* trajectory from its first to its last point.
C16_RunsCoverTrajectory ==
    (TumReturned /\ tum_args.mode \in {"distance", "error"}) =>
        SumOf(ReturnedApproximation.run_durations) = Len(tum_args.X) - 1

\* The timesteps that are local peaks of the call's curvature signal
LocalPeaks ==
    {t \in 0..(Len(tum_args.k) - 1) :
        /\ t > 0 /\ t < Len(tum_args.k) - 1
        /\ tum_args.k[t] < tum_args.k[t + 1]
        /\ tum_args.k[t + 2] < tum_args.k[t + 1]}
TumbleSet == {tum_out.value.tumble_idxs[j] : j \in 1..Len(tum_out.value.tumble_idxs)}

\* C17  The tumble indices of get_approximate(X, k, distance) are pairwise
\* at least distance timesteps apart, each is a local peak of k, and every
\* local peak that is not a tumble lies fewer than distance steps from a
\* tumble that is at least as high.
C17_GreedySpacedPeaks ==
    (TumReturned /\ tum_args.mode = "distance") =>
        /\ \A a, b \in TumbleSet : a # b => Abs(a - b) >= tum_args.distance
        /\ TumbleSet \subseteq LocalPeaks
        /\ Cardinality(TumbleSet) = Len(tum_out.value.tumble_idxs)
        /\ \A p \in LocalPeaks \ TumbleSet :
              \E a \in TumbleSet :
                  /\ Abs(a - p) < tum_args.distance
                  /\ tum_args.k[a + 1] >= tum_args.k[p + 1]

\* A call has accepted one peak and rejected a lower one that lies
\* distance - 1 steps from it.
C17_Witness ==
    /\ TumReturned /\ tum_args.mode = "distance"
    /\ tum_args.distance > 1
    /\ \E a \in TumbleSet, p \in LocalPeaks \ TumbleSet :
          /\ Abs(a - p) = tum_args.distance - 1
          /\ tum_args.k[p + 1] < tum_args.k[a + 1]

\* Two peaks exactly distance steps apart have both been accepted.
C17_WitnessBoth ==
    /\ TumReturned /\ tum_args.mode = "distance"
    /\ \E a, b \in TumbleSet : a # b /\ Abs(a - b) = tum_args.distance

\* C18  (as claimed) For a fixed trajectory and curvature signal the
\* reconstruction error of get_approximate never falls as distance grows:
\* over an increasing array of distances, the error at a smaller distance is
\* at most the error at a larger one.
C18_ErrorMonotone ==
    (TumReturned /\ tum_args.mode = "sweep") =>
        \A i, j \in 1..Len(tum_args.distances) :
            tum_args.distances[i] < tum_args.distances[j] =>
                RLe(tum_out.value[i], tum_out.value[j])

\* The points of the call's trajectory lie on one line at equal spacing.
ColinearUniform ==
    \A i \in 2..(Len(tum_args.X) - 1) :
        /\ tum_args.X[i + 1][1] - tum_args.X[i][1] = tum_args.X[i][1] - tum_args.X[i - 1][1]
        /\ tum_args.X[i + 1][2] - tum_args.X[i][2] = tum_args.X[i][2] - tum_args.X[i - 1][2]
\* The point at timestep t of the straight line from the trajectory's first
\* point to its last
OnChord(t) ==
    <<Rat(tum_args.X[1][1] * (Len(tum_args.X) - 1 - t) + tum_args.X[Len(tum_args.X)][1] * t,
          Len(tum_args.X) - 1),
      Rat(tum_args.X[1][2] * (Len(tum_args.X) - 1 - t) + tum_args.X[Len(tum_args.X)][2] * t,
          Len(tum_args.X) - 1)>>

\* The call is a get_approximate call with well-formed arguments.
ValidDistanceCall ==
    /\ tum_args.mode = "distance"
    /\ Len(tum_args.X) = Len(tum_args.k)
    /\ tum_args.distance > 0
\* The signal of the call has no local peak, so none can be accepted.
NoPeakAccepted == ValidDistanceCall /\ LocalPeaks = {}
\* What the call returns when it has no tumble
ZeroTumbleResult ==
    /\ tum_out.value.tumble_idxs = <<>>
    /\ tum_out.value.vertices = <<tum_args.X[1], tum_args.X[Len(tum_args.X)]>>
    /\ \A t \in 0..(Len(tum_args.X) - 1) : tum_out.value.X_approx[t + 1] = OnChord(t)
    /\ ColinearUniform => MSE(tum_args.X, tum_out.value.X_approx) = R(0)
\* C19  (as claimed) A get_approximate call with well-formed arguments
\* never raises, and when the signal has no peak or the distance is larger
\* than the trajectory it accepts no peak: it returns no tumble index, the
\* first and last points as the only vertices, one straight run as X_approx,
\* and a zero error for colinear, uniformly spaced points.
C19_AsClaimed ==
    (TumDone /\ ValidDistanceCall) =>
        /\ tum_out.kind = "return"
        /\ (LocalPeaks = {} \/ tum_args.distance > Len(tum_args.X)) => ZeroTumbleResult

\* C19  (amended) A get_approximate call with well-formed arguments never
\* raises.  When the signal has no local peak it returns no tumble index,
\* the first and last points as the only vertices, one straight run as
\* X_approx, and a zero error for colinear, uniformly spaced points.  A
\* distance larger than the trajectory leaves at most one tumble, and
\* exactly one when the signal has a peak.
C19_ZeroTumbles ==
    (TumDone /\ ValidDistanceCall) =>
        /\ tum_out.kind = "return"
        /\ NoPeakAccepted => ZeroTumbleResult
        /\ tum_args.distance > Len(tum_args.X) =>
              Len(tum_out.value.tumble_idxs) = (IF LocalPeaks = {} THEN 0 ELSE 1)

\* A call on a moving straight trajectory whose signal has no peak has
\* returned, with a distance longer than the trajectory.
C19_Witness ==
    /\ TumReturned /\ NoPeakAccepted /\ ColinearUniform
    /\ LocalPeaks = {}
    /\ tum_args.distance > Len(tum_args.X)
    /\ Len(tum_args.X) > 2
    /\ tum_args.X[1] # tum_args.X[2]

\* A call on a trajectory that is not straight has accepted no peak and
\* returned a positive error.
C19_WitnessBent ==
    /\ TumReturned /\ NoPeakAccepted /\ ~ColinearUniform
    /\ MSE(tum_args.X, tum_out.value.X_approx) # R(0)

\* The call is a find_approximation call with well-formed arguments.
ValidErrorCall == tum_args.mode = "error" /\ FindArgsOk(tum_args)
\* The search used its whole budget and no candidate came within tolerance.
Exhausted ==
    /\ Len(tum_tried) = tum_args.max_iterations
    /\ \A i \in 1..Len(tum_tried) :
          ~RLe(Deviation(tum_tried[i].mse, tum_args.error_limit), tum_args.tolerance)
\* The error of the Approximation the call returned
ReturnedMSE == MSE(tum_args.X, tum_out.value.approx.X_approx)

\* C20  find_approximation computes at most max_iterations candidates and
\* then returns: a call with well-formed arguments never raises, also when
\* the budget is used up with no candidate within tolerance.  What it
\* returns is a candidate it computed whose error is nearest the limit,
\* together with the distance and the smoothing windows that produce it.
C20_BoundedSearchReturnsBest ==
    /\ tum_search # NoObject =>
          /\ tum_search.iteration <= tum_args.max_iterations
          /\ Len(tum_tried) = tum_search.iteration
          /\ (tum_pc = "searching" /\ tum_search.iteration = tum_args.max_iterations)
                => ENABLED TumFindReturn
    /\ (TumDone /\ ValidErrorCall) =>
          /\ tum_out.kind = "return"
          /\ Len(tum_tried) >= 1
          /\ \E i \in 1..Len(tum_tried) :
                /\ tum_tried[i].approx = tum_out.value.approx
                /\ tum_tried[i].distance = tum_out.value.distance
                /\ tum_tried[i].smooth_e0 = tum_out.value.smooth_e0
                /\ tum_tried[i].smooth_K = tum_out.value.smooth_K
          /\ \A i \in 1..Len(tum_tried) :
                RLe(Deviation(ReturnedMSE, tum_args.error_limit),
                    Deviation(tum_tried[i].mse, tum_args.error_limit))
          /\ tum_out.value.approx =
                get_approximate(tum_args.X,
                                Curvature(tum_args.e0_raw, tum_out.value.smooth_e0,
                                          tum_out.value.smooth_K),
                                tum_out.value.distance).value

\* A search has used its whole budget of MaxIterations iterations without
\* coming within tolerance and has returned a candidate that is not the
\* last one it computed: an earlier one, computed with other parameters, was
\* nearer the limit.
C20_Witness ==
    /\ TumDone /\ ValidErrorCall /\ tum_out.kind = "return"
    /\ Exhausted
    /\ tum_args.max_iterations = MaxIterations
    /\ RLt(Deviation(ReturnedMSE, tum_args.error_limit),
           Deviation(tum_tried[Len(tum_tried)].mse, tum_args.error_limit))
    /\ <<tum_out.value.distance, tum_out.value.smooth_e0, tum_out.value.smooth_K>> #
          <<tum_tried[Len(tum_tried)].distance, tum_tried[Len(tum_tried)].smooth_e0,
            tum_tried[Len(tum_tried)].smooth_K>>

\* A search has narrowed a smoothing window before its budget ran out.
C20_WitnessWindows ==
    /\ TumDone /\ ValidErrorCall
    /\ \E i, j \in 1..Len(tum_tried) : tum_tried[i].smooth_K # tum_tried[j].smooth_K

-----------------------------------------------------------------------------
(* Two forward calls running concurrently on one DynamicCameras instance   *)
(* (dynamic_cameras.py lines 36-96).  Each call takes the steps of forward *)
(* in order; the steps of the two calls interleave freely.  Both calls     *)
(* pass the assertions of lines 40-42 and 60-61.                           *)

ParCallIds == {1, 2}
ParOther(t) == 3 - t

\* The instance has been built and two calls with different coefficients
\* of the same batch size have been made; neither has run its first step.
ParInit ==
    /\ par_dyn \in {DynamicCameras(distort) : distort \in BOOLEAN}
    /\ par_owner = 0
    /\ \E n \in 1..MaxBatch, m1, m2 \in 1..MaxPts, o \in 0..1, o1, o2 \in 0..1 :
          par_calls =
              [t \in ParCallIds |->
                  [pc |-> "called",
                   coefficients |-> CoefficientBatch(n, IF t = 1 THEN o ELSE o + 1),
                   points |-> PointBatch(n, IF t = 1 THEN m1 ELSE m2, IF t = 1 THEN o1 ELSE o2),
                   at_shift |-> 0, at_finish |-> 0,
                   xy |-> None, out |-> NoOutcome]]

\* Line 62 of call t: extract_coefficients rebinds the instance's buffers.
ParExtract(t) ==
    /\ par_calls[t].pc = "called"
    /\ par_dyn' = extract_coefficients(par_dyn, par_calls[t].coefficients)
    /\ par_owner' = t
    /\ par_calls' = [par_calls EXCEPT ![t].pc = "extracted"]
    /\ UNCHANGED notPar

\* Lines 65-79 of call t, reading the instance's buffers as they are now.
ParShift(t) ==
    /\ par_calls[t].pc = "extracted"
    /\ par_calls' = [par_calls EXCEPT ![t].pc = "shifted",
                                      ![t].at_shift = par_owner,
                                      ![t].xy = ShiftedXY(par_dyn, par_calls[t].points)]
    /\ UNCHANGED <<par_dyn, par_owner>>
    /\ UNCHANGED notPar

\* Lines 81-96 of call t, reading the instance's buffers as they are now.
ParFinish(t) ==
    /\ par_calls[t].pc = "shifted"
    /\ par_calls' = [par_calls EXCEPT ![t].pc = "returned",
                                      ![t].at_finish = par_owner,
                                      ![t].out = Returned(StackedPixels(par_dyn, par_calls[t].xy))]
    /\ UNCHANGED <<par_dyn, par_owner>>
    /\ UNCHANGED notPar

InitPar ==
    ParInit /\ CamIdle /\ TriIdle /\ DynIdle /\ TumIdle /\ RTIdle /\ VidIdle
       /\ FcIdle /\ SegIdle
NextPar ==
    \/ \E t \in ParCallIds : ParExtract(t)
    \/ \E t \in ParCallIds : ParShift(t)
    \/ \E t \in ParCallIds : ParFinish(t)
SpecPar == InitPar /\ [][NextPar]_vars

-----------------------------------------------------------------------------
(* Properties of concurrent forward calls, checked under SpecPar.          *)

\* The buffers a new instance holds for the coefficients given to call u
ParBuffersOf(u) ==
    extract_coefficients(DynamicCameras(par_dyn.distort), par_calls[u].coefficients)
\* What call t is owed: the projection of its points through its own
\* coefficients
ParOwnProjection(t) ==
    ForwardOn(DynamicCameras(par_dyn.distort), par_calls[t].coefficients,
              par_calls[t].points)
ParReturned(t) == par_calls[t].pc = "returned"

\* C21  Two concurrent forward calls on one instance interfere through the
\* buffers: a call returns the projection of its points through the
\* coefficients the buffers held when it read them, lines 65-79 through
\* those of the call that extracted last before them, lines 81-96 likewise.
\* Only a call whose reads both followed its own extraction without the
\* other call's in between is sure of the projection it is owed.
C21_ReentrancyHazard ==
    \A t \in ParCallIds :
        ParReturned(t) =>
            /\ par_calls[t].at_shift \in ParCallIds
            /\ par_calls[t].at_finish \in ParCallIds
            /\ par_calls[t].out.value =
                  StackedPixels(ParBuffersOf(par_calls[t].at_finish),
                                ShiftedXY(ParBuffersOf(par_calls[t].at_shift),
                                          par_calls[t].points))
            /\ (par_calls[t].at_shift = t /\ par_calls[t].at_finish = t) =>
                  par_calls[t].out.value = ParOwnProjection(t)

\* The interleaving of the hazard: the other call extracted after this
\* call's extraction and before its projection, and this call has returned
\* a projection that is not the one of its own coefficients.
C21_Witness ==
    \E t \in ParCallIds :
        /\ ParReturned(t)
        /\ par_calls[t].at_shift = ParOther(t)
        /\ par_calls[t].at_finish = ParOther(t)
        /\ par_calls[t].out.value # ParOwnProjection(t)

\* The other call extracted between this call's lines 79 and 81: the
\* returned projection is partly the one of the other call's coefficients.
C21_WitnessPartly ==
    \E t \in ParCallIds :
        /\ ParReturned(t)
        /\ par_calls[t].at_shift = t
        /\ par_calls[t].at_finish = ParOther(t)
        /\ par_calls[t].out.value # ParOwnProjection(t)
        /\ par_calls[t].out.value #
              ForwardOn(DynamicCameras(par_dyn.distort),
                        par_calls[ParOther(t)].coefficients, par_calls[t].points)


-----------------------------------------------------------------------------
(* What a triangulate call leaves of its arguments, checked under SpecTri. *)

\* The array the caller handed in as x0, as the call leaves it: x0 (line 15)
\* names the caller's own array from line 34 on (np.array is only applied
\* to a non-array), so what the call does to its x0 is done to the caller's.
CallerX0 == IF pc # "call" /\ ArgsAccepted /\ x0 # None THEN x0_local ELSE x0
\* The call is running: between its entry and its return or raise.
TriRunning == pc # "done"

\* C22  A step of a triangulate call, up to and including its return or
\* raise, changes none of its arguments: the per-view detection lists, the
\* Cameras entity (and with it each camera's pose, matrix, distortion and
\* shift, which the camera models are built from), the threshold and the
\* caller's x0 are after the step what they were before the call, and the
\* caller's x0 array holds its x0 still.
C22_InputsReadOnly ==
    [][TriRunning =>
          /\ image_points' = image_points
          /\ cameras' = cameras
          /\ matching_threshold' = matching_threshold
          /\ x0' = x0
          /\ CallerX0' = x0]_vars

\* A call given an initial guess has returned points that are not at that
\* guess: minimize moved away from its start, several times over.
C22_Witness ==
    /\ pc = "done"
    /\ outcome.kind = "return"
    /\ x0 # None
    /\ Len(objs) > 1
    /\ \A k \in 1..Len(objs) : objs[k].point_3d # x0

\* A call given an initial guess has raised after minimising.
C22_WitnessRaised ==
    /\ pc = "done"
    /\ RaisedError("ValueError")
    /\ x0 # None
    /\ Len(objs) > 0


-----------------------------------------------------------------------------
(* RTExplorer.forward and simulate_particle_trajectory (rt_explorer.py).   *)
(* Angles are whole quarter turns and the frame vectors lie along the      *)
(* axes, so rotations are exact; time is counted in steps (dt = 1).        *)

MaxSteps == 3
MaxRuns == 2
\* batch_size (line 72): the particles of the batch
RTBatchSize == 2
Particles == 1..RTBatchSize

Zero3 == <<0, 0, 0>>
Dot(a, b) == a[1] * b[1] + a[2] * b[2] + a[3] * b[3]
Cross(a, b) ==
    <<a[2] * b[3] - a[3] * b[2], a[3] * b[1] - a[1] * b[3], a[1] * b[2] - a[2] * b[1]>>
Scale(v, s) == <<v[1] * s, v[2] * s, v[3] * s>>
VAdd(a, b) == <<a[1] + b[1], a[2] + b[2], a[3] + b[3]>>

RECURSIVE RTSum(_)
RTSum(seq) == IF seq = <<>> THEN 0 ELSE Head(seq) + RTSum(Tail(seq))

\* torch.cos, torch.sin of q quarter turns
Cos4(q) == CASE q % 4 = 0 -> 1 [] q % 4 = 1 -> 0 [] q % 4 = 2 -> -1 [] q % 4 = 3 -> 0
Sin4(q) == CASE q % 4 = 0 -> 0 [] q % 4 = 1 -> 1 [] q % 4 = 2 -> 0 [] q % 4 = 3 -> -1

\* normalise (mf_methods), for a vector along an axis
normalise(v) ==
    [k \in 1..3 |-> IF v[k] > 0 THEN 1 ELSE IF v[k] < 0 THEN -1 ELSE 0]
\* orthogonalise (particle_explorer): source without its part along ref
orthogonalise(source, ref) == VAdd(source, Scale(ref, 0 - Dot(source, ref)))

\* Lines 461-469 applied to v: R = cosA I + sinA [u]x + (1 - cosA) u u^T
RotationApply(u, q, v) ==
    VAdd(VAdd(Scale(v, Cos4(q)), Scale(Cross(u, v), Sin4(q))),
         Scale(u, (1 - Cos4(q)) * Dot(u, v)))

\* _rotate_frames (lines 450-478) on one particle's frame
rotate_frames(self, q, which) ==
    LET u == IF which = "planar" THEN self.e2 ELSE self.e1
        e0n == normalise(RotationApply(u, q, self.e0))
        e1r == IF which = "planar" THEN normalise(RotationApply(u, q, self.e1))
               ELSE self.e1
        e1n == normalise(orthogonalise(e1r, e0n))
    IN  [e0 |-> e0n, e1 |-> e1n, e2 |-> normalise(Cross(e0n, e1n))]

\* The frame after tumble i: lines 319-320
FrameAfterTumble(self, theta, phi) ==
    rotate_frames(rotate_frames(self, theta, "planar"), phi, "nonplanar")

\* The frames a particle goes through, lines 317-321: the frame it starts
\* with and the frame after each tumble.
RECURSIVE FramesFrom(_, _, _, _)
FramesFrom(self, thetas, phis, i) ==
    IF i > Len(thetas) THEN <<self>>
    ELSE <<self>> \o FramesFrom(FrameAfterTumble(self, thetas[i], phis[i]),
                                thetas, phis, i + 1)

\* Line 332: the pause after a tumble of nonplanar angle phi
PauseExponent(nonp_pause_type) == IF nonp_pause_type = "linear" THEN 1 ELSE 2
PauseOf(phi, nonp_pause_type, nonp_pause_max) ==
    IF nonp_pause_type = "none" THEN 0
    ELSE IF PauseExponent(nonp_pause_type) = 1 THEN Abs(phi) * nonp_pause_max
         ELSE Abs(phi) * Abs(phi) * nonp_pause_max

\* e0_exp[lo:hi] = v  (a slice assignment: hi is clipped to the length)
Fill(e0_exp, lo, hi, v) ==
    [t \in 1..Len(e0_exp) |-> IF t > lo /\ t <= hi THEN v ELSE e0_exp[t]]

SimReturned(e0_exp, iterations) ==
    [kind |-> "return", value |-> e0_exp, iterations |-> iterations]
SimRaised(error, iterations) ==
    [kind |-> "raise", error |-> error, iterations |-> iterations]

\* Line 48: e0 = e0s[i], with i the index of the run that has just ended
HeadingAfterRun(e0s, i) == e0s[i + 1]

\* The while loop of lines 31-55, from the locals st on. Indexing a tensor
\* past its end raises IndexError.
RECURSIVE SimLoop(_, _, _, _, _, _)
SimLoop(n_steps, durations, speeds, e0s, pauses, st) ==
    IF ~(st.step < n_steps) THEN SimReturned(st.e0_exp, st.iterations)
    ELSE IF st.i + 1 > Len(durations) \/ st.i + 1 > Len(speeds)
    THEN SimRaised("IndexError", st.iterations)
    ELSE LET run_steps == durations[st.i + 1]
             run_speed == speeds[st.i + 1]
         IN  IF st.step + run_steps > n_steps
             THEN SimReturned(Fill(st.e0_exp, st.step, n_steps, Scale(st.e0, run_speed)),
                              st.iterations + 1)
             ELSE IF st.i + 1 > Len(e0s) \/ st.i + 1 > Len(pauses)
             THEN SimRaised("IndexError", st.iterations)
             ELSE SimLoop(n_steps, durations, speeds, e0s, pauses,
                          [step |-> st.step + run_steps + pauses[st.i + 1],
                           i |-> st.i + 1,
                           e0 |-> HeadingAfterRun(e0s, st.i),
                           e0_exp |-> Fill(st.e0_exp, st.step, st.step + run_steps,
                                           Scale(st.e0, run_speed)),
                           iterations |-> st.iterations + 1])

\* simulate_particle_trajectory (lines 23-57)
simulate_particle_trajectory(n_steps, durations, speeds, e0s, pauses) ==
    SimLoop(n_steps, durations, speeds, e0s, pauses,
            [step |-> 0, i |-> 0, e0 |-> e0s[1],
             e0_exp |-> [t \in 1..n_steps |-> Zero3], iterations |-> 0])

\* simulate_particle_trajectory_wrapper (lines 60-61)
simulate_particle_trajectory_wrapper(args) ==
    simulate_particle_trajectory(args.n_steps, args.durations, args.speeds,
                                 args.e0s, args.pauses)

\* Variant of MinParticleRuntime: the greatest total over the batch.
MinParticleRuntime_Max(durations) ==
    CHOOSE m \in {RTSum(durations[b]) : b \in Particles} :
        \A b \in Particles : RTSum(durations[b]) <= m
\* Line 293: durations.sum(dim=1).min()
MinParticleRuntime(durations) ==
    CHOOSE m \in {RTSum(durations[b]) : b \in Particles} :
        \A b \in Particles : m <= RTSum(durations[b])

\* Variant of PoolMap: the results in the order the workers finished.
PoolMap_AsCompleted(res, order) == [b \in Particles |-> res[order[b]]]
\* pool.map (line 340): the results in the order of the tasks
PoolMap(res, order) == res

\* torch.cumsum over a sequence of numbers / of vectors
RECURSIVE CumSum(_, _)
CumSum(seq, k) == IF k = 0 THEN 0 ELSE CumSum(seq, k - 1) + seq[k]
RECURSIVE CumSum3(_, _)
CumSum3(seq, k) == IF k = 0 THEN Zero3 ELSE VAdd(CumSum3(seq, k - 1), seq[k])

\* Lines 370-374: half the pause before and half the pause after each run,
\* a half step rounded up or down as the noise of line 372 falls.
DistributedPause(pauses, k, up) ==
    LET both == (IF k = 1 THEN 0 ELSE pauses[k - 1]) + pauses[k]
    IN  IF both % 2 = 0 THEN both \div 2
        ELSE IF up THEN both \div 2 + 1 ELSE both \div 2

\* Line 377: vertex_idxs of one particle
VertexIdxs(durations, pauses, ups) ==
    LET moved == [k \in 1..Len(durations) |->
                     durations[k] + DistributedPause(pauses, k, ups[k])]
    IN  [k \in 1..Len(durations) |-> CumSum(moved, k)]

\* Line 380: the number of tumbles within the simulation time
NTumbles(vertex_idxs, n_steps) ==
    Cardinality({k \in 1..Len(vertex_idxs) : vertex_idxs[k] < n_steps})

Prefix(seq, n) == [k \in 1..n |-> seq[k]]

-----------------------------------------------------------------------------
(* The inputs of a simulation.                                             *)

\* What run_model.sample gives for one particle: a duration and a speed
RunSamples == {<<0, 1>>, <<1, 2>>, <<2, 1>>}
\* What angles_model gives for one tumble: a planar and a nonplanar angle
AnglePool == {<<1, 0>>, <<2, 1>>}
PauseTypes == {"none", "linear", "cubic"}
\* The frame a particle starts with (lines 127-133)
InitialFrame(b) ==
    IF b % 2 = 1
    THEN [e0 |-> <<1, 0, 0>>, e1 |-> <<0, 1, 0>>, e2 |-> <<0, 0, 1>>]
    ELSE [e0 |-> <<0, 0, 1>>, e1 |-> <<1, 0, 0>>, e2 |-> <<0, 1, 0>>]

\* An explorer as __init__ leaves it, and forward(T, dt) called on it.
RTInit ==
    /\ rt_pc = "sampling"
    /\ \E n_steps \in {MaxSteps - 1, MaxSteps}, n_workers \in {1, 2},
          nonp_pause_type \in PauseTypes :
          rt_cfg = [n_steps |-> n_steps, N_WORKERS |-> n_workers,
                    nonp_pause_type |-> nonp_pause_type,
                    nonp_pause_max |-> IF nonp_pause_type = "none" THEN 0 ELSE 1]
    /\ rt_frame = [b \in Particles |-> InitialFrame(b)]
    /\ rt_durations = [b \in Particles |-> <<>>]
    /\ rt_speeds = [b \in Particles |-> <<>>]
    /\ rt_thetas = <<>>
    /\ rt_phis = <<>>
    /\ rt_e0s = <<>>
    /\ rt_pauses = <<>>
    /\ rt_pool = NoPool
    /\ rt_i = 0
    /\ rt_e0_exp = <<>>
    /\ rt_out = NoOutcome

max_tumbles == Len(rt_durations[1])
\* The sampling loop of lines 287-293 goes on.
SamplingGoesOn == MinParticleRuntime(rt_durations) < rt_cfg.n_steps

\* One iteration of the sampling loop, lines 288-293.
RTSampleRuns ==
    /\ rt_pc = "sampling"
    /\ SamplingGoesOn
    /\ max_tumbles < MaxRuns
    /\ \E sample \in [Particles -> RunSamples] :
          /\ rt_durations' = [b \in Particles |-> Append(rt_durations[b], sample[b][1])]
          /\ rt_speeds' = [b \in Particles |-> Append(rt_speeds[b], sample[b][2])]
    /\ UNCHANGED <<rt_pc, rt_cfg, rt_frame, rt_thetas, rt_phis, rt_e0s, rt_pauses,
                   rt_pool, rt_i, rt_e0_exp, rt_out>>
    /\ UNCHANGED notRT

\* The arguments of particle b's simulation, lines 342-345 and 355-361
TaskOf(n_steps, durations, speeds, e0s, pauses, b) ==
    [n_steps |-> n_steps, durations |-> durations[b], speeds |-> speeds[b],
     e0s |-> e0s[b], pauses |-> pauses[b]]

\* Lines 296-349: the angles are sampled, the headings and the pauses are
\* worked out, and the simulations are handed to the pool or begun in turn.
RTAngles ==
    /\ rt_pc = "sampling"
    /\ ~SamplingGoesOn
    /\ \E angles \in [1..max_tumbles -> AnglePool] :
       \* one draw of angles for the batch: the particles differ in their
       \* initial frames and in their runs
       \E thetas \in {[b \in Particles |-> [k \in 1..max_tumbles |-> angles[k][1]]]} :
       \E phis \in {[b \in Particles |-> [k \in 1..max_tumbles |-> angles[k][2]]]} :
       \E frames \in {[b \in Particles |-> FramesFrom(rt_frame[b], thetas[b], phis[b], 1)]} :
       \E e0s \in {[b \in Particles |-> [k \in 1..(max_tumbles + 1) |-> frames[b][k].e0]]} :
       \E pauses \in {[b \in Particles |-> [k \in 1..max_tumbles |->
                         PauseOf(phis[b][k], rt_cfg.nonp_pause_type,
                                 rt_cfg.nonp_pause_max)]]} :
          /\ rt_thetas' = thetas
          /\ rt_phis' = phis
          /\ rt_frame' = [b \in Particles |-> frames[b][max_tumbles + 1]]
          /\ rt_e0s' = e0s
          /\ IF rt_cfg.nonp_pause_type \notin {"none", "linear", "quadratic"}
             THEN /\ rt_pc' = "failed"
                  /\ rt_out' = [kind |-> "raise", error |-> "RuntimeError"]
                  /\ UNCHANGED <<rt_pauses, rt_pool, rt_i>>
             ELSE /\ rt_pc' = "simulate"
                  /\ rt_pauses' = pauses
                  /\ rt_pool' = IF rt_cfg.N_WORKERS > 1
                                THEN [tasks |-> [b \in Particles |->
                                                    TaskOf(rt_cfg.n_steps, rt_durations,
                                                           rt_speeds, e0s, pauses, b)],
                                      running |-> {},
                                      res |-> [b \in Particles |-> NoOutcome],
                                      order |-> <<>>]
                                ELSE NoPool
                  /\ rt_i' = IF rt_cfg.N_WORKERS > 1 THEN 0 ELSE 1
                  /\ UNCHANGED rt_out
    /\ UNCHANGED <<rt_cfg, rt_durations, rt_speeds, rt_e0_exp>>
    /\ UNCHANGED notRT

\* Lines 300-307: the copula gave no finite angles in eleven attempts.
RTAnglesFail ==
    /\ rt_pc = "sampling"
    /\ ~SamplingGoesOn
    /\ rt_pc' = "failed"
    /\ rt_out' = [kind |-> "raise", error |-> "RuntimeError"]
    /\ UNCHANGED <<rt_cfg, rt_frame, rt_durations, rt_speeds, rt_thetas, rt_phis,
                   rt_e0s, rt_pauses, rt_pool, rt_i, rt_e0_exp>>
    /\ UNCHANGED notRT

\* One iteration of the serial loop, lines 354-362.
RTSerial ==
    /\ rt_pc = "simulate"
    /\ rt_cfg.N_WORKERS <= 1
    /\ rt_i <= RTBatchSize
    /\ \E r \in {simulate_particle_trajectory(rt_cfg.n_steps, rt_durations[rt_i],
                                             rt_speeds[rt_i], rt_e0s[rt_i],
                                             rt_pauses[rt_i])} :
          IF r.kind = "raise"
          THEN /\ rt_pc' = "failed"
               /\ rt_out' = [kind |-> "raise", error |-> r.error]
               /\ UNCHANGED <<rt_i, rt_e0_exp>>
          ELSE /\ rt_e0_exp' = [b \in 1..rt_i |-> IF b = rt_i THEN r.value
                                                  ELSE rt_e0_exp[b]]
               /\ rt_i' = rt_i + 1
               /\ rt_pc' = IF rt_i = RTBatchSize THEN "simulated" ELSE "simulate"
               /\ UNCHANGED rt_out
    /\ UNCHANGED <<rt_cfg, rt_frame, rt_durations, rt_speeds, rt_thetas, rt_phis,
                   rt_e0s, rt_pauses, rt_pool>>
    /\ UNCHANGED notRT

TasksWaiting == {b \in Particles : b \notin rt_pool.running /\ rt_pool.res[b] = NoOutcome}

\* A free worker process of the pool takes the next task of the queue.
RTWorkerStart ==
    /\ rt_pc = "simulate"
    /\ rt_cfg.N_WORKERS > 1
    /\ TasksWaiting # {}
    /\ Cardinality(rt_pool.running) < rt_cfg.N_WORKERS
    /\ \E b \in TasksWaiting :
          /\ \A o \in TasksWaiting : b <= o
          /\ rt_pool' = [rt_pool EXCEPT !.running = @ \cup {b}]
    /\ UNCHANGED <<rt_pc, rt_cfg, rt_frame, rt_durations, rt_speeds, rt_thetas,
                   rt_phis, rt_e0s, rt_pauses, rt_i, rt_e0_exp, rt_out>>
    /\ UNCHANGED notRT

\* A worker process finishes its task: it ran the wrapper on its own copy
\* of the task's arguments and sends the result back.
RTWorkerFinish(b) ==
    /\ rt_pc = "simulate"
    /\ b \in rt_pool.running
    /\ rt_pool' = [rt_pool EXCEPT
                      !.running = @ \ {b},
                      !.res[b] = simulate_particle_trajectory_wrapper(rt_pool.tasks[b]),
                      !.order = Append(@, b)]
    /\ UNCHANGED <<rt_pc, rt_cfg, rt_frame, rt_durations, rt_speeds, rt_thetas,
                   rt_phis, rt_e0s, rt_pauses, rt_i, rt_e0_exp, rt_out>>
    /\ UNCHANGED notRT

\* pool.map returns (or raises what a task raised), and lines 347-349 copy
\* its results into e0_exp.
RTCollect ==
    /\ rt_pc = "simulate"
    /\ rt_cfg.N_WORKERS > 1
    /\ Len(rt_pool.order) = RTBatchSize
    /\ \E res \in {PoolMap(rt_pool.res, rt_pool.order)} :
          IF \E b \in Particles : res[b].kind = "raise"
          THEN /\ rt_pc' = "failed"
               /\ rt_out' = [kind |-> "raise", error |-> "IndexError"]
               /\ UNCHANGED rt_e0_exp
          ELSE /\ rt_e0_exp' = [b \in Particles |-> res[b].value]
               /\ rt_pc' = "simulated"
               /\ UNCHANGED rt_out
    /\ UNCHANGED <<rt_cfg, rt_frame, rt_durations, rt_speeds, rt_thetas, rt_phis,
                   rt_e0s, rt_pauses, rt_pool, rt_i>>
    /\ UNCHANGED notRT

\* Lines 364-428: the positions, the tumble times and the angles of the
\* tumbles that fall within the simulation time.
RTFinish ==
    /\ rt_pc = "simulated"
    /\ \E ups \in {u \in [Particles -> [1..max_tumbles -> BOOLEAN]] :
                       \A b \in Particles, k \in 1..max_tumbles :
                          \* the noise matters only where a half step is rounded
                          DistributedPause(rt_pauses[b], k, TRUE)
                             = DistributedPause(rt_pauses[b], k, FALSE) => ~u[b][k]} :
       \E vertex_idxs \in {[b \in Particles |->
                              VertexIdxs(rt_durations[b], rt_pauses[b], ups[b])]} :
       \E n_tumbles \in {[b \in Particles |-> NTumbles(vertex_idxs[b], rt_cfg.n_steps)]} :
          rt_out' = [kind |-> "return",
                     X |-> [b \in Particles |->
                              [t \in 1..rt_cfg.n_steps |-> CumSum3(rt_e0_exp[b], t)]],
                     vertex_idxs |-> [b \in Particles |-> Prefix(vertex_idxs[b], n_tumbles[b])],
                     durations_0 |-> [b \in Particles |-> Prefix(rt_durations[b], n_tumbles[b])],
                     thetas |-> [b \in Particles |-> Prefix(rt_thetas[b], n_tumbles[b])],
                     phis |-> [b \in Particles |-> Prefix(rt_phis[b], n_tumbles[b])]]
    /\ rt_pc' = "done"
    /\ UNCHANGED <<rt_cfg, rt_frame, rt_durations, rt_speeds, rt_thetas, rt_phis,
                   rt_e0s, rt_pauses, rt_pool, rt_i, rt_e0_exp>>
    /\ UNCHANGED notRT

InitRT ==
    RTInit /\ CamIdle /\ TriIdle /\ DynIdle /\ TumIdle /\ ParIdle /\ VidIdle
       /\ FcIdle /\ SegIdle
NextRT ==
    \/ RTSampleRuns
    \/ RTAngles
    \/ RTAnglesFail
    \/ RTSerial
    \/ RTWorkerStart
    \/ \E b \in Particles : RTWorkerFinish(b)
    \/ RTCollect
    \/ RTFinish
SpecRT == InitRT /\ [][NextRT]_vars


-----------------------------------------------------------------------------
(* Properties of RTExplorer.forward, checked under SpecRT.                 *)

\* The simulations have been set up / have all ended.
RTSetUp == rt_pc \in {"simulate", "simulated", "done"}
RTSimulated == rt_pc \in {"simulated", "done"}
\* What simulate_particle_trajectory gives for particle b's own rows
OwnSimulation(b) ==
    simulate_particle_trajectory(rt_cfg.n_steps, rt_durations[b], rt_speeds[b],
                                 rt_e0s[b], rt_pauses[b])
\* The step at which run k of particle b begins (runs are counted from 1
\* here, steps from 0), and the steps of run k and of the pause after it
RunStart(b, k) ==
    RTSum([j \in 1..(k - 1) |-> rt_durations[b][j] + rt_pauses[b][j]])
InRun(b, k, t) ==
    RunStart(b, k) <= t /\ t < RunStart(b, k) + rt_durations[b][k]
InPause(b, k, t) ==
    RunStart(b, k) + rt_durations[b][k] <= t /\ t < RunStart(b, k + 1)
Steps == 0..(rt_cfg.n_steps - 1)
Runs(b) == 1..Len(rt_durations[b])

\* C23  Through the worker pool as in the serial loop, e0_exp[i] is
\* simulate_particle_trajectory of particle i's own durations, speeds,
\* headings and pauses, in whatever order the workers finish; and every
\* result a worker has sent back is the one of its own particle.
C23_PoolAsSerial ==
    /\ RTSimulated =>
          \A b \in Particles : rt_e0_exp[b] = OwnSimulation(b).value
    /\ rt_pool # NoPool =>
          \A b \in Particles :
              rt_pool.res[b] # NoOutcome => rt_pool.res[b] = OwnSimulation(b)

\* The second task finished before the first, the two trajectories differ,
\* and the pool's results have been copied into e0_exp.
C23_Witness ==
    /\ RTSimulated
    /\ rt_cfg.N_WORKERS > 1
    /\ rt_pool.order = <<2, 1>>
    /\ rt_e0_exp[1] # rt_e0_exp[2]

\* The serial loop has simulated two particles with different trajectories.
C23_WitnessSerial ==
    /\ RTSimulated
    /\ rt_cfg.N_WORKERS = 1
    /\ rt_e0_exp[1] # rt_e0_exp[2]

\* C27  The velocity written for every run is the heading of that run times
\* its speed: at every step of run i (i >= 0) of a particle, e0_exp holds
\* e0s[i] * speeds[i].
C27_HeadingPerRun ==
    RTSimulated =>
        \A b \in Particles : \A k \in Runs(b) : \A t \in Steps :
            InRun(b, k, t) =>
                rt_e0_exp[b][t + 1] = Scale(rt_e0s[b][k], rt_speeds[b][k])

\* C28  The sampling loop leaves every particle with run durations that
\* are not negative and sum to n_steps at least; on such rows
\* simulate_particle_trajectory returns, after no more iterations than
\* there are runs and without indexing past the sampled runs, and every
\* step of its output lies in a run, where the velocity is a heading times
\* the run's speed, or in a pause, where it is zero.
C28_SimulationInBounds ==
    /\ RTSetUp =>
          \A b \in Particles :
              /\ \A k \in Runs(b) : rt_durations[b][k] >= 0 /\ rt_pauses[b][k] >= 0
              /\ RTSum(rt_durations[b]) >= rt_cfg.n_steps
              /\ OwnSimulation(b).kind = "return"
              /\ OwnSimulation(b).iterations <= Len(rt_durations[b])
              /\ Len(OwnSimulation(b).value) = rt_cfg.n_steps
              /\ \A t \in Steps : \E k \in Runs(b) :
                    \/ /\ InRun(b, k, t)
                       /\ \E h \in 1..Len(rt_e0s[b]) :
                             OwnSimulation(b).value[t + 1] =
                                 Scale(rt_e0s[b][h], rt_speeds[b][k])
                    \/ /\ InPause(b, k, t)
                       /\ OwnSimulation(b).value[t + 1] = Zero3
    /\ rt_pc = "failed" => rt_out.error # "IndexError"

\* A simulation has used every sampled run of a particle whose durations
\* sum to n_steps exactly, with a pause inside the simulated time.
C28_Witness ==
    /\ rt_pc = "done"
    /\ \E b \in Particles :
          /\ RTSum(rt_durations[b]) = rt_cfg.n_steps
          /\ OwnSimulation(b).iterations = Len(rt_durations[b])
          /\ \E t \in Steps : \E k \in Runs(b) : InPause(b, k, t)


-----------------------------------------------------------------------------
(* VideoReader (video_reader.py). An image is its shape and its pixels in  *)
(* row order; pixels are 8 bits wide (uint8).                              *)

MaxFrames == 3

Image(shape, data) == [shape |-> shape, data |-> data]

\* pims.as_grey followed by astype(dtype), lines 99-102: a colour frame is
\* weighted channel by channel and cut back to whole numbers, a grey frame
\* is left as it is.
as_grey(frame) ==
    IF Len(frame.shape) = 3
    THEN Image(<<frame.shape[1], frame.shape[2]>>,
               [k \in 1..Len(frame.data) |->
                   (2125 * frame.data[k][1] + 7154 * frame.data[k][2]
                      + 721 * frame.data[k][3]) \div 10000])
    ELSE frame

\* _invert, lines 106-109: np.invert of every 8-bit pixel of a copy
invert(frame) == Image(frame.shape, [k \in 1..Len(frame.data) |-> 255 - frame.data[k]])

\* cv2.subtract: the difference of 8-bit pixels, saturated at zero
subtract(a, b) ==
    Image(a.shape, [k \in 1..Len(a.data) |->
                       IF a.data[k] > b.data[k] THEN a.data[k] - b.data[k] ELSE 0])

\* self.video[idx]: a sequence indexed as Python indexes, from the end for a
\* negative idx, raising IndexError outside of it
VideoItem(video, idx) ==
    IF idx >= Len(video) \/ idx < 0 - Len(video)
    THEN [kind |-> "raise", error |-> "IndexError"]
    ELSE Returned(video[(IF idx < 0 THEN idx + Len(video) ELSE idx) + 1])

\* __getitem__, lines 85-88
getitem(self, idx) ==
    IF VideoItem(self.video, idx).kind = "raise" THEN VideoItem(self.video, idx)
    ELSE Returned(as_grey(VideoItem(self.video, idx).value))

\* __len__, lines 90-91
VidLen(self) == Len(self.video)

\* Variant of NextFrame: the frame after the next.
NextFrame_Skip(current_frame) == current_frame + 2
\* Line 78
NextFrame(current_frame) == current_frame + 1

\* __next__, lines 76-83: what it gives, and the reader after it
next(self) ==
    IF getitem(self, NextFrame(self.current_frame)).kind = "raise"
    THEN [kind |-> "raise", error |-> "StopIteration"]
    ELSE getitem(self, NextFrame(self.current_frame))
AfterNext(self) ==
    IF getitem(self, NextFrame(self.current_frame)).kind = "raise" THEN self
    ELSE [self EXCEPT !.current_frame = NextFrame(self.current_frame)]

\* The assertion of line 94
FrameNumOk(self, idx) == 0 <= idx /\ idx <= VidLen(self)
OutOfRange == "Target frame number out of range for video stream!"

\* set_frame_num, lines 93-95
set_frame_num(self, idx) ==
    IF FrameNumOk(self, idx) THEN Returned(NoObject)
    ELSE [kind |-> "raise", error |-> "AssertionError", message |-> OutOfRange]
AfterSetFrameNum(self, idx) ==
    IF FrameNumOk(self, idx) THEN [self EXCEPT !.current_frame = idx] ELSE self

\* get_image, lines 111-129. bg_inv is bound by line 126 only: line 127
\* reads it whether or not line 126 ran.
get_image(self, inv, subtract_background) ==
    IF getitem(self, self.current_frame).kind = "raise"
    THEN getitem(self, self.current_frame)
    ELSE LET image == IF inv THEN invert(getitem(self, self.current_frame).value)
                      ELSE getitem(self, self.current_frame).value
         IN  IF ~subtract_background THEN Returned(image)
             ELSE IF self.background = NoObject
             THEN [kind |-> "raise", error |-> "AssertionError",
                   message |-> "No background image available to subtract."]
             ELSE IF self.background.shape # image.shape
             THEN [kind |-> "raise", error |-> "AssertionError",
                   message |-> "Image size from video does not match background image size!"]
             ELSE IF ~inv
             THEN [kind |-> "raise", error |-> "UnboundLocalError", message |-> "bg_inv"]
             ELSE Returned(subtract(image, invert(self.background)))

-----------------------------------------------------------------------------
(* Videos and backgrounds.                                                 *)

\* Frame idx of a video: two pixels, grey in even frames, colour in odd ones
RawFrame(idx) ==
    IF idx % 2 = 0
    THEN Image(<<1, 2>>, <<40 * idx + 10, 200 - 30 * idx>>)
    ELSE Image(<<1, 2, 3>>, <<<<40 * idx, 90, 200>>, <<255, 10 * idx, 0>>>>)
Video(n) == [k \in 1..n |-> RawFrame(k - 1)]
\* No background image, one of the size of the frames, one of another size
Backgrounds == {NoObject, Image(<<1, 2>>, <<250, 30>>), Image(<<2, 1>>, <<250, 30>>)}

\* VideoReader(video_path, background_image_path), lines 25-59
VideoReader(video, background) ==
    [video |-> video, background |-> background, current_frame |-> -1]

VidInit ==
    /\ \E n \in 0..MaxFrames, background \in Backgrounds :
          vid = VideoReader(Video(n), background)
    /\ vid_last = NoCall
    /\ vid_returned = <<>>
    /\ vid_fresh = TRUE
    /\ vid_stopped = FALSE

Call(op, args, before, out) == [op |-> op, args |-> args, before |-> before, outcome |-> out]

\* next(reader)
VidNext ==
    /\ vid' = AfterNext(vid)
    /\ vid_last' = Call("__next__", NoArgs, vid.current_frame, next(vid))
    /\ vid_returned' = IF next(vid).kind = "return"
                       THEN Append(vid_returned, next(vid).value) ELSE vid_returned
    /\ vid_stopped' = (vid_stopped \/ next(vid).kind = "raise")
    /\ UNCHANGED vid_fresh
    /\ UNCHANGED notVid

\* reader.set_frame_num(idx)
VidSetFrameNum(idx) ==
    /\ vid' = AfterSetFrameNum(vid, idx)
    /\ vid_last' = Call("set_frame_num", [idx |-> idx], vid.current_frame,
                        set_frame_num(vid, idx))
    /\ IF FrameNumOk(vid, idx)
       THEN vid_returned' = <<>> /\ vid_fresh' = FALSE /\ vid_stopped' = FALSE
       ELSE UNCHANGED <<vid_returned, vid_fresh, vid_stopped>>
    /\ UNCHANGED notVid

\* reader.get_image(invert, subtract_background)
VidGetImage(inv, subtract_background) ==
    /\ vid_last' = Call("get_image",
                        [invert |-> inv, subtract_background |-> subtract_background],
                        vid.current_frame, get_image(vid, inv, subtract_background))
    /\ UNCHANGED <<vid, vid_returned, vid_fresh, vid_stopped>>
    /\ UNCHANGED notVid

InitVid ==
    VidInit /\ CamIdle /\ TriIdle /\ DynIdle /\ TumIdle /\ ParIdle /\ RTIdle
       /\ FcIdle /\ SegIdle
NextVid ==
    \/ VidNext
    \/ \E idx \in (-1)..(MaxFrames + 1) : VidSetFrameNum(idx)
    \/ \E inv \in BOOLEAN, subtract_background \in BOOLEAN :
          VidGetImage(inv, subtract_background)
SpecVid == InitVid /\ [][NextVid]_vars


-----------------------------------------------------------------------------
(* Properties of VideoReader, checked under SpecVid.                       *)

LastCall(op) == vid_last.op = op
\* The grey image of frame idx of the video
GreyFrame(idx) == as_grey(RawFrame(idx))
\* The cursor was on a frame of the video when the last call was made.
CursorOnFrame == 0 <= vid_last.before /\ vid_last.before < VidLen(vid)
\* The background can be subtracted from the frames of the video.
BackgroundFits ==
    vid.background # NoObject /\ vid.background.shape = GreyFrame(0).shape

\* C24  With the cursor on a frame, and a background of the frames' shape
\* when one is to be subtracted, get_image returns the current frame for
\* each of the four combinations of invert and subtract_background:
\* inverted exactly when invert is set, with the background subtracted
\* exactly when subtract_background is set.
C24_FourCombinations ==
    (/\ LastCall("get_image")
     /\ CursorOnFrame
     /\ vid_last.args.subtract_background => BackgroundFits)
    => /\ vid_last.outcome.kind = "return"
       /\ ~vid_last.args.subtract_background =>
             vid_last.outcome.value =
                 IF vid_last.args.invert THEN invert(GreyFrame(vid_last.before))
                 ELSE GreyFrame(vid_last.before)
       /\ (vid_last.args.subtract_background /\ vid_last.args.invert) =>
             vid_last.outcome.value =
                 subtract(invert(GreyFrame(vid_last.before)), invert(vid.background))

\* C25  A __next__ that returns gives the frame after the cursor and moves
\* the cursor onto it; one that raises raises StopIteration and leaves the
\* cursor where it was. So a fresh reader returns frames 0, 1, ... in order,
\* each once, raises once all of them have been returned, and from then on
\* every __next__ raises until set_frame_num moves the cursor.
C25_IterationAdvancesByOne ==
    /\ LastCall("__next__") =>
          IF vid_last.outcome.kind = "return"
          THEN /\ vid.current_frame = vid_last.before + 1
               /\ vid_last.before + 1 < VidLen(vid)
               /\ vid_last.outcome.value = GreyFrame(vid_last.before + 1)
          ELSE /\ vid_last.outcome.error = "StopIteration"
               /\ vid.current_frame = vid_last.before
               /\ vid_last.before + 1 >= VidLen(vid)
    /\ vid_fresh =>
          /\ vid_returned = [k \in 1..Len(vid_returned) |-> GreyFrame(k - 1)]
          /\ vid.current_frame = Len(vid_returned) - 1
          /\ Len(vid_returned) <= VidLen(vid)
          /\ vid_stopped => Len(vid_returned) = VidLen(vid)
    /\ vid_stopped => next(vid).kind = "raise"

\* A fresh reader has returned every frame of its video, several of them,
\* and its last __next__ raised.
C25_Witness ==
    /\ vid_fresh
    /\ vid_stopped
    /\ Len(vid_returned) = MaxFrames
    /\ LastCall("__next__")
    /\ vid_last.outcome.kind = "raise"

\* C30  A set_frame_num(idx) that returns leaves the cursor on frame idx of
\* the video, 0 <= current_frame < len(video), so that get_image reads that
\* frame; one that raises has an idx outside that range, raises 'Target
\* frame number out of range for video stream!' and leaves the cursor where
\* it was.
C30_CursorInRange ==
    LastCall("set_frame_num") =>
        IF vid_last.outcome.kind = "return"
        THEN /\ vid.current_frame = vid_last.args.idx
             /\ 0 <= vid.current_frame
             /\ vid.current_frame < VidLen(vid)
             /\ get_image(vid, FALSE, FALSE) = Returned(GreyFrame(vid_last.args.idx))
        ELSE /\ vid_last.outcome.message = OutOfRange
             /\ vid.current_frame = vid_last.before
             /\ (vid_last.args.idx < 0 \/ vid_last.args.idx >= VidLen(vid))


-----------------------------------------------------------------------------
(* VideoReader.find_contours (video_reader.py, lines 131-184). The         *)
(* threshold ratio is counted in twentieths, the unit of its 0.05 steps;   *)
(* of the contours only their number matters to the loop.                  *)

MaxAttempts == 3

\* int(x) of the fraction num / den (den > 0): cut towards zero
IntOf(num, den) == IF num < 0 THEN 0 - ((0 - num) \div den) ELSE num \div den

\* image.max(), line 140
MaxBrightness(image) ==
    CHOOSE m \in {image.data[k] : k \in 1..Len(image.data)} :
        \A k \in 1..Len(image.data) : image.data[k] <= m

\* Variant of ThresholdOf: the ratio's share of the brightness, as it is.
ThresholdOf_NoFloor(limits, max_brightness, ratio20) == IntOf(max_brightness * ratio20, 20)
\* Line 149
ThresholdOf(limits, max_brightness, ratio20) ==
    IF limits.MIN_REQ_THRESHOLD >= IntOf(max_brightness * ratio20, 20)
    THEN limits.MIN_REQ_THRESHOLD
    ELSE IntOf(max_brightness * ratio20, 20)

\* The condition of the while loop, line 148
KeepsLooking(limits, contours) ==
    contours = 0 \/ contours > limits.MAX_CONTOURS_ALLOWED

\* The limits a build may import, and the ratios a caller may ask for
Limits ==
    [MAX_CONTOURING_ATTEMPTS : {1, MaxAttempts}, MIN_REQ_THRESHOLD : {3, 20},
     MAX_CONTOURS_ALLOWED : {1, 2}]
Ratios20 == {0, 1, 10}

\* A reader with its cursor on a frame, and find_contours called on it.
FcInit ==
    /\ fc_pc = "call"
    /\ fc_limits \in Limits
    /\ \E idx \in 0..1, background \in Backgrounds, subtract_background \in BOOLEAN,
          ratio20 \in Ratios20 :
          fc_args = [self |-> AfterSetFrameNum(VideoReader(Video(2), background), idx),
                     subtract_background |-> subtract_background,
                     cont_threshold_ratio |-> ratio20]
    /\ fc_loc = NoObject
    /\ fc_out = NoOutcome

\* Lines 137-147: the image, its brightness, and the locals before the loop.
FcCall ==
    /\ fc_pc = "call"
    /\ \E image \in {get_image(fc_args.self, TRUE, fc_args.subtract_background)} :
          IF image.kind = "raise"
          THEN /\ fc_out' = image
               /\ fc_pc' = "done"
               /\ UNCHANGED fc_loc
          ELSE /\ fc_loc' = [max_brightness |-> MaxBrightness(image.value),
                             cont_threshold_ratio |-> fc_args.cont_threshold_ratio,
                             contours |-> 0, threshold |-> 0, attempts |-> 0,
                             found |-> <<>>, stop |-> "none"]
               /\ fc_pc' = "loop"
               /\ UNCHANGED fc_out
    /\ UNCHANGED <<fc_limits, fc_args>>
    /\ UNCHANGED notFc

\* One iteration of the while loop, lines 148-182: masked contours of the
\* thresholded image and, if there are any, n contours of the dilated mask.
FcIterate ==
    /\ fc_pc = "loop"
    /\ KeepsLooking(fc_limits, fc_loc.contours)
    /\ \E masked \in BOOLEAN, n \in 0..(fc_limits.MAX_CONTOURS_ALLOWED + 1) :
       \E contours \in {IF masked THEN n ELSE 0} :
       \E threshold \in {ThresholdOf(fc_limits, fc_loc.max_brightness,
                                     fc_loc.cont_threshold_ratio)} :
       \E too_low \in {contours = 0 /\ threshold <= fc_limits.MIN_REQ_THRESHOLD} :
       \E attempts \in {IF too_low THEN fc_loc.attempts ELSE fc_loc.attempts + 1} :
       \E stop \in {IF too_low THEN "too low"
                    ELSE IF attempts > fc_limits.MAX_CONTOURING_ATTEMPTS
                    THEN "attempts" ELSE "none"} :
          /\ fc_loc' = [fc_loc EXCEPT
                           !.threshold = threshold,
                           !.contours = contours,
                           !.cont_threshold_ratio =
                               IF contours = 0 THEN @ - 1
                               ELSE IF contours > fc_limits.MAX_CONTOURS_ALLOWED
                                       /\ ~too_low
                               THEN @ + 1 ELSE @,
                           !.attempts = attempts,
                           !.found = Append(@, contours),
                           !.stop = stop]
          /\ IF stop # "none"
             THEN /\ fc_pc' = "done"
                  /\ fc_out' = Returned([contours |-> contours, threshold |-> threshold])
             ELSE UNCHANGED <<fc_pc, fc_out>>
    /\ UNCHANGED <<fc_limits, fc_args>>
    /\ UNCHANGED notFc

\* The loop's condition fails: line 184.
FcReturn ==
    /\ fc_pc = "loop"
    /\ ~KeepsLooking(fc_limits, fc_loc.contours)
    /\ fc_pc' = "done"
    /\ fc_out' = Returned([contours |-> fc_loc.contours, threshold |-> fc_loc.threshold])
    /\ UNCHANGED <<fc_limits, fc_args, fc_loc>>
    /\ UNCHANGED notFc

InitFc ==
    FcInit /\ CamIdle /\ TriIdle /\ DynIdle /\ TumIdle /\ ParIdle /\ RTIdle
       /\ VidIdle /\ SegIdle
NextFc == FcCall \/ FcIterate \/ FcReturn
\* The call is sequential code: a step that can be taken is taken.
SpecFc == InitFc /\ [][NextFc]_vars /\ WF_vars(NextFc)

-----------------------------------------------------------------------------
(* Properties of find_contours, checked under SpecFc.                      *)

FcDone == fc_pc = "done"
Iterations == Len(fc_loc.found)
\* The call has gone through its loop and returned.
FcLooped == FcDone /\ fc_out.kind = "return"

C26_WitnessFound ==
    /\ FcLooped
    /\ fc_loc.stop = "none"
    /\ Iterations > 1


-----------------------------------------------------------------------------
(* generate_2d_segmentation_masks (scripts/midlines2d/                     *)
(* generate_segmentation_masks.py). A frame is known by the position at    *)
(* which the call got it; a SegmentationMasks document by its frame and    *)
(* its id, None until the document is stored.                              *)

MaxTrials == 2
MaxTrialFrames == 2
MaxBatchSize == 2

\* What a trial may hold: a frame that is not ready, a ready frame without
\* masks of this checkpoint, a ready frame with such masks
FrameKinds ==
    {[ready |-> FALSE, existing |-> FALSE], [ready |-> TRUE, existing |-> FALSE],
     [ready |-> TRUE, existing |-> TRUE]}

\* Lines 119 and 122-126: the stored document, or a new one
SegmentationMasks(frame, existing) ==
    [frame |-> frame, id |-> IF existing THEN <<frame>> ELSE None]

\* Lines 109-116: the frame is left out
Skipped(kind, missing_only) == ~kind.ready \/ (kind.existing /\ missing_only)

NotStored == [predicted |-> 0, inserted |-> 0, updated |-> 0]

\* Lines 72-80: the documents of the batch without and with an id
BatchInserts(batch) == {batch[k].frame : k \in {j \in 1..Len(batch) : batch[j].id = None}}
BatchUpdates(batch) == {batch[k].frame : k \in {j \in 1..Len(batch) : batch[j].id # None}}
Occurrences(batch, frame) == Cardinality({k \in 1..Len(batch) : batch[k].frame = frame})

\* process_batch (lines 56-85): what it leaves in the store
process_batch(batch, store) ==
    [frame \in 1..Len(store) |->
        [predicted |-> store[frame].predicted + Occurrences(batch, frame),
         inserted |-> store[frame].inserted
                        + (IF frame \in BatchInserts(batch)
                           THEN Occurrences(batch, frame) ELSE 0),
         updated |-> store[frame].updated
                        + (IF frame \in BatchUpdates(batch)
                           THEN Occurrences(batch, frame) ELSE 0)]]
Flush(batch, leftover) ==
    [size |-> Len(batch), inserts |-> BatchInserts(batch),
     updates |-> BatchUpdates(batch), leftover |-> leftover]

\* Line 129
BatchFull(batch, frame_batch_size) == Len(batch) = frame_batch_size

SegInit ==
    /\ seg_pc = "start"
    /\ \E n_trials \in 0..MaxTrials, frame_batch_size \in 1..MaxBatchSize,
          missing_only \in BOOLEAN, frame_num \in {None, <<0>>} :
          seg_args = [n_trials |-> n_trials, frame_batch_size |-> frame_batch_size,
                      missing_only |-> missing_only, frame_num |-> frame_num]
    /\ seg_loc = [trial |-> 0, n |-> 0, batch |-> <<>>]
    /\ seg_frames = <<>>
    /\ seg_store = <<>>
    /\ seg_flushes = <<>>
    /\ seg_out = NoOutcome

\* Lines 88-105: the next trial, its existing masks and its frames. With a
\* frame_num, frames is a Python list, and a list's count needs an
\* argument: line 105 raises TypeError.
SegBeginTrial ==
    /\ seg_pc \in {"start", "between"}
    /\ seg_loc.trial < seg_args.n_trials
    /\ IF seg_args.frame_num # None
       THEN /\ \E kind \in FrameKinds :
                  seg_frames' = Append(seg_frames, [trial |-> seg_loc.trial + 1,
                                                    kind |-> kind])
            /\ seg_store' = Append(seg_store, NotStored)
            /\ seg_pc' = "failed"
            /\ seg_out' = [kind |-> "raise", error |-> "TypeError"]
       ELSE /\ seg_pc' = "trial"
            /\ UNCHANGED <<seg_frames, seg_store, seg_out>>
    /\ seg_loc' = [seg_loc EXCEPT !.trial = @ + 1, !.n = 0]
    /\ UNCHANGED <<seg_args, seg_flushes>>
    /\ UNCHANGED notSeg

\* One iteration of the loop over the frames, lines 107-130.
SegFrame ==
    /\ seg_pc = "trial"
    /\ seg_loc.n < MaxTrialFrames
    /\ \E kind \in FrameKinds :
       \E frame \in {Len(seg_frames) + 1} :
       \E batch \in {IF Skipped(kind, seg_args.missing_only) THEN seg_loc.batch
                     ELSE Append(seg_loc.batch, SegmentationMasks(frame, kind.existing))} :
       \E full \in {~Skipped(kind, seg_args.missing_only)
                       /\ BatchFull(batch, seg_args.frame_batch_size)} :
          /\ seg_frames' = Append(seg_frames, [trial |-> seg_loc.trial, kind |-> kind])
          /\ seg_store' = IF full THEN process_batch(batch, Append(seg_store, NotStored))
                          ELSE Append(seg_store, NotStored)
          /\ seg_flushes' = IF full THEN Append(seg_flushes, Flush(batch, FALSE))
                            ELSE seg_flushes
          /\ seg_loc' = [seg_loc EXCEPT !.n = @ + 1,
                                        !.batch = IF full THEN <<>> ELSE batch]
    /\ UNCHANGED <<seg_pc, seg_args, seg_out>>
    /\ UNCHANGED notSeg

\* The trial has no more frames.
SegEndTrial ==
    /\ seg_pc = "trial"
    /\ seg_pc' = "between"
    /\ UNCHANGED <<seg_args, seg_loc, seg_frames, seg_store, seg_flushes, seg_out>>
    /\ UNCHANGED notSeg

\* Lines 133-135: the leftovers, and the return.
SegFinish ==
    /\ seg_pc \in {"start", "between"}
    /\ seg_loc.trial = seg_args.n_trials
    /\ IF Len(seg_loc.batch) > 0
       THEN /\ seg_store' = process_batch(seg_loc.batch, seg_store)
            /\ seg_flushes' = Append(seg_flushes, Flush(seg_loc.batch, TRUE))
            /\ seg_loc' = [seg_loc EXCEPT !.batch = <<>>]
       ELSE UNCHANGED <<seg_store, seg_flushes, seg_loc>>
    /\ seg_pc' = "done"
    /\ seg_out' = Returned(NoObject)
    /\ UNCHANGED <<seg_args, seg_frames>>
    /\ UNCHANGED notSeg

InitSeg ==
    SegInit /\ CamIdle /\ TriIdle /\ DynIdle /\ TumIdle /\ ParIdle /\ RTIdle /\ VidIdle /\ FcIdle
NextSeg == SegBeginTrial \/ SegFrame \/ SegEndTrial \/ SegFinish
SpecSeg == InitSeg /\ [][NextSeg]_vars

-----------------------------------------------------------------------------
(* Properties of generate_2d_segmentation_masks, checked under SpecSeg.    *)

SegEnded == seg_pc \in {"done", "failed"}
\* The frames whose masks the call is to produce
Wanted == {frame \in 1..Len(seg_frames) :
              ~Skipped(seg_frames[frame].kind, seg_args.missing_only)}
Pending(frame) == Occurrences(seg_loc.batch, frame)
StoredTimes(frame) == seg_store[frame].inserted + seg_store[frame].updated

\* The batching of the frames the loops have gone through: nothing is lost
\* or doubled, the batch stays within frame_batch_size, and every flush is
\* of a full batch or of the leftovers at the end.
BatchingAsClaimed ==
    /\ \A frame \in Wanted :
          /\ seg_store[frame].predicted = StoredTimes(frame)
          /\ StoredTimes(frame) + Pending(frame) = 1
          /\ (IF seg_frames[frame].kind.existing THEN seg_store[frame].inserted
              ELSE seg_store[frame].updated) = 0
    /\ \A frame \in (1..Len(seg_frames)) \ Wanted :
          seg_store[frame] = NotStored /\ Pending(frame) = 0
    /\ Len(seg_loc.batch) <= seg_args.frame_batch_size
    /\ \A k \in 1..Len(seg_flushes) :
          /\ seg_flushes[k].inserts \cap seg_flushes[k].updates = {}
          /\ Cardinality(seg_flushes[k].inserts \cup seg_flushes[k].updates)
                = seg_flushes[k].size
          /\ IF seg_flushes[k].leftover
             THEN /\ k = Len(seg_flushes)
                  /\ seg_pc = "done"
                  /\ seg_flushes[k].size > 0
                  /\ seg_flushes[k].size < seg_args.frame_batch_size
             ELSE seg_flushes[k].size = seg_args.frame_batch_size

\* C29  Every frame of the trials that is ready and not skipped has had
\* its masks predicted and stored exactly once when the call has ended;
\* the pending batch never holds more than frame_batch_size documents, is
\* flushed when it reaches that size and once more at the end for the
\* leftovers, carries over from one trial to the next, and is empty at the
\* end; a flush inserts the documents without an id and updates the others.
C29_EveryFrameOnce ==
    /\ seg_pc # "idle" /\ seg_pc # "failed" => BatchingAsClaimed
    /\ SegEnded =>
          /\ seg_loc.batch = <<>>
          /\ \A frame \in Wanted : StoredTimes(frame) = 1

=============================================================================
